---- MODULE Spec2Model ----
(***************************************************************************)
(* Reverse-mode autograd: snapshot guards (SavedVariable), the convolution *)
(* nodes that own them, and the staged interpreter node                    *)
(* (InterpreterAutogradFunction).                                          *)
(*                                                                         *)
(* The specifications that share the module:                               *)
(*   SpecGuard   one live Variable and one SavedVariable built from it     *)
(*   SpecConv    ConvForward -> ConvBackward -> ConvBackwardBackward and   *)
(*               the backward passes that run and release them             *)
(*   SpecKernel  the backend a convolution picks, its kernel calls and the *)
(*               gradients ConvBackward returns                            *)
(*   SpecInterp  a staged program and the chain of interpreter nodes       *)
(*   SpecEdges   the edges of the node an interpreter node builds          *)
(*   SpecEngine  a backward pass of the engine over a graph of nodes, and  *)
(*               SpecEngineFair, the same with workers that keep going     *)
(*   SpecVersion threads that mutate a Variable in place while a guard is  *)
(*               captured from it and unpacked                             *)
(*   SpecCounter threads that construct nodes, each node numbered from     *)
(*               Function::function_counter                                *)
(*   SpecTrace   Function::tracedApply while a trace is recorded           *)
(*   SpecChecks  one apply of a convolution node on arguments of any shape *)
(*   SpecLock    threads in tracedApply and the lock of the tracing state  *)
(*   SpecCopy    THPCopy over a list of registered copy functions          *)
(***************************************************************************)
EXTENDS Integers, Sequences, FiniteSets, TLC

VARIABLES
  \* ---- SpecGuard ----
  variable,         \* the live Variable the guard is captured from
  version_counter,  \* the shared version block: counter id -> current version
  acc_alive,        \* grad accumulators that still have a strong owner
  sv,               \* the SavedVariable under test
  ret,              \* what the last unpack returned or threw
  hist,             \* what happened to sv since it was captured
  \* ---- SpecConv ----
  cv,               \* the conv graph: variables, nodes and their guards
  engine,           \* the backward passes run so far and the last apply's outcome
  \* ---- SpecKernel ----
  kern,             \* a convolution's shapes and backend, and what it computed
  \* ---- SpecEngine ----
  graph,            \* the nodes, their edges and flags, and who constructed them
  run,              \* the backward pass under way: queue, buffers, node states
  \* ---- SpecCounter, SpecTrace, SpecVersion ----
  creations,        \* the nodes constructed so far and each thread's counter
  tracing,          \* the tracing state and the outcome of the last tracedApply
  vblock,           \* a version block and the threads that mutate and save it
  \* ---- SpecChecks, SpecLock, SpecCopy ----
  invoke,           \* a convolution node, the arguments of an apply, its outcome
  tlock,            \* the tracing-state lock and the calls of tracedApply in progress
  copy,             \* the registered copy functions and the outcome of THPCopy
  \* ---- SpecInterp ----
  stage_details,    \* stage_details_: one StageDetails per compiled stage
  this_fn,          \* the InterpreterAutogradFunction that was applied last
  built_fn,         \* the node the last apply built, if any
  out               \* the outcome of the last InterpreterAutogradFunction::apply

guardVars  == <<variable, version_counter, acc_alive, sv, ret, hist>>
moreVars   == <<invoke, tlock, copy>>
auxVars    == <<graph, run, creations, tracing, vblock, moreVars>>
convVars   == <<cv, engine, kern, auxVars>>
interpVars == <<stage_details, this_fn, built_fn, out>>
vars       == <<guardVars, convVars, interpVars>>

----------------------------------------------------------------------------
(* Bounds *)

MaxVersion  == 2   \* in-place mutations in one run
MaxOutputNr == 1   \* output slots 0..MaxOutputNr of a producing node

----------------------------------------------------------------------------
(* Error messages and result tags *)

ERR_BACKWARD_TWICE   == "Trying to backward through the graph a second time"
ERR_INPLACE_MODIFIED == "modified by an inplace operation"
ERR_NO_GRAD_FN       == "No grad_fn for non-leaf saved variable"
ERR_NO_ACCUMULATOR   == "No grad accumulator for a saved leaf!"
OK        == "ok"            \* a defined Variable was returned
UNDEFINED == "undefined"     \* Variable() was returned
NONE      == "none"          \* nothing was called yet

----------------------------------------------------------------------------
(* Variable and SavedVariable *)

NoFn      == "nullptr"          \* a null shared_ptr<Function>
NoData    == "undefined tensor" \* an undefined at::Tensor
NoCounter == "no version"       \* an undefined SavedVersion
NoAcc     == "no accumulator"   \* an empty weak_ptr

\* Variable(): an undefined handle.
UndefinedVariable ==
  [defined |-> FALSE, data |-> NoData, requires_grad |-> FALSE, vc |-> NoCounter,
   grad_fn |-> NoFn, output_nr |-> 0, grad_accumulator |-> NoAcc]

\* make_variable(data, requires_grad): a leaf.
LeafVariable(d, rg, c, acc) ==
  [defined |-> TRUE, data |-> d, requires_grad |-> rg, vc |-> c,
   grad_fn |-> NoFn, output_nr |-> 0, grad_accumulator |-> acc]

\* make_variable(data, output_nr, grad_fn): output output_nr of grad_fn.
FnVariable(d, nr, fn, c) ==
  [defined |-> TRUE, data |-> d, requires_grad |-> TRUE, vc |-> c,
   grad_fn |-> fn, output_nr |-> nr, grad_accumulator |-> NoAcc]

is_leaf(v) == v.grad_fn = NoFn

\* SavedVariable(): the default-constructed, empty guard.
EmptySavedVariable ==
  [data |-> NoData, requires_grad |-> FALSE, expected_version |-> -1,
   version |-> NoCounter, has_grad_fn |-> FALSE, output_nr |-> 0,
   grad_accumulator |-> NoAcc, _grad_fn |-> NoFn]

\* a capture that stores the producer of an output too
SavedVariableCtor_owning(v, is_output, vcs) ==
  IF ~v.defined THEN EmptySavedVariable
  ELSE [data             |-> v.data,
        requires_grad    |-> v.requires_grad,
        expected_version |-> vcs[v.vc],
        version          |-> v.vc,
        has_grad_fn      |-> ~is_leaf(v),
        output_nr        |-> v.output_nr,
        grad_accumulator |-> IF is_leaf(v) THEN v.grad_accumulator ELSE NoAcc,
        _grad_fn         |-> v.grad_fn]

\* SavedVariable::SavedVariable(variable, is_output); vcs is the version block heap.
SavedVariableCtor(v, is_output, vcs) ==
  IF ~v.defined THEN EmptySavedVariable
  ELSE [data             |-> v.data,
        requires_grad    |-> v.requires_grad,
        expected_version |-> vcs[v.vc],
        version          |-> v.vc,
        has_grad_fn      |-> ~is_leaf(v),
        output_nr        |-> v.output_nr,
        grad_accumulator |-> IF is_leaf(v) THEN v.grad_accumulator ELSE NoAcc,
        _grad_fn         |-> IF ~is_output THEN v.grad_fn ELSE NoFn]

\* SavedVersion::is_modified(): the saved version against the live block.
is_modified(g, vcs) == g.expected_version # vcs[g.version]

\* the in-place mutations made so far, over all version blocks
RECURSIVE SumOver(_, _)
SumOver(f, S) ==
  IF S = {} THEN 0
  ELSE LET x == CHOOSE y \in S : TRUE IN f[x] + SumOver(f, S \ {x})

TotalMutations(vcs) == SumOver(vcs, DOMAIN vcs)

\* a weak_ptr that is never found expired
expired_never(acc, alive) == FALSE

\* weak_ptr::expired()
expired(acc, alive) == acc \notin alive

Thrown(msg) == [status |-> msg, var |-> UndefinedVariable]

\* an unpack that takes no reset data for a release
released_guard_ignored(g) == FALSE

\* an unpack that takes every guard without data for a released one
released_guard_unversioned(g) == g.data = NoData

\* unpack, first test: the data was reset but a version had been saved
released_guard(g) == g.data = NoData /\ g.version # NoCounter

\* a release that forgets the check of the saved version
version_modified_unchecked(g, vcs) == FALSE

\* unpack, second test: `if (version.is_modified())`
version_modified(g, vcs) == is_modified(g, vcs)

\* an unpack that never asks for saved_for
grad_fn_never_missing(g) == FALSE

\* unpack, third test: a producer is expected, none was stored
grad_fn_missing(g) == g.has_grad_fn /\ g._grad_fn = NoFn

\* an unpack that gives the handle a version counter of its own
saved_version_fresh(g) == NoCounter

\* `var.version_counter() = version`
saved_version(g) == g.version

\* an unpack that tests the saved version before it looks at the data
unpack_version_first(g, saved_for, vcs, alive) ==
  IF g.version # NoCounter /\ version_modified(g, vcs)
  THEN Thrown(ERR_INPLACE_MODIFIED)
  ELSE IF g.data = NoData
  THEN IF released_guard(g)
       THEN Thrown(ERR_BACKWARD_TWICE)
       ELSE [status |-> UNDEFINED, var |-> UndefinedVariable]
  ELSE IF grad_fn_missing(g) /\ saved_for = NoFn
  THEN Thrown(ERR_NO_GRAD_FN)
  ELSE IF g.requires_grad /\ g._grad_fn = NoFn /\ ~g.has_grad_fn
            /\ expired(g.grad_accumulator, alive)
  THEN Thrown(ERR_NO_ACCUMULATOR)
  ELSE [status |-> OK, var |-> UndefinedVariable]

\* SavedVariable::unpack(saved_for)
unpack(g, saved_for, vcs, alive) ==
  IF g.data = NoData
  THEN IF released_guard(g)
       THEN Thrown(ERR_BACKWARD_TWICE)
       ELSE [status |-> UNDEFINED, var |-> UndefinedVariable]
  ELSE IF version_modified(g, vcs)
  THEN Thrown(ERR_INPLACE_MODIFIED)
  ELSE
    LET grad_fn == IF grad_fn_missing(g) THEN saved_for ELSE g._grad_fn
        var     == IF grad_fn # NoFn
                   THEN [FnVariable(g.data, g.output_nr, grad_fn,
                                    saved_version(g))
                           EXCEPT !.grad_accumulator = g.grad_accumulator]
                   ELSE LeafVariable(g.data, g.requires_grad, saved_version(g),
                                     g.grad_accumulator)
    IN IF grad_fn_missing(g) /\ saved_for = NoFn
       THEN Thrown(ERR_NO_GRAD_FN)
       ELSE IF g.requires_grad /\ var.grad_fn = NoFn
                 /\ expired(g.grad_accumulator, alive)
       THEN Thrown(ERR_NO_ACCUMULATOR)
       ELSE [status |-> OK, var |-> var]

\* a release that drops the whole guard, the saved version with it
reset_guard(g) == [g EXCEPT !.data = NoData, !.version = NoCounter]

\* x.data.reset(), as every releaseVariables() does to each of its guards
reset_data(g) == [g EXCEPT !.data = NoData]

----------------------------------------------------------------------------
(* SpecGuard: one Variable, one SavedVariable *)

TheFn      == "fn"      \* the node that produced `variable` when it is not a leaf
OtherFn    == "caller"  \* another node, passed as saved_for
TheData    == "data"
TheCounter == "version"
TheAcc     == "accumulator"

VariableChoices ==
  {UndefinedVariable}
  \cup {LeafVariable(TheData, rg, TheCounter, IF rg THEN TheAcc ELSE NoAcc)
          : rg \in BOOLEAN}
  \cup {FnVariable(TheData, nr, TheFn, TheCounter) : nr \in 0..MaxOutputNr}

NoHist == [captured |-> FALSE, is_output |-> FALSE, from |-> UndefinedVariable,
           mutated |-> FALSE, released |-> FALSE]

NoRet == [status |-> NONE, var |-> UndefinedVariable, saved_for |-> NoFn,
          when |-> NoHist, alive |-> {}]

IdleMore   == /\ invoke = <<>>
              /\ tlock = <<>>
              /\ copy = <<>>
IdleAux    == /\ IdleMore
              /\ graph = <<>>
              /\ run = <<>>
              /\ creations = <<>>
              /\ tracing = <<>>
              /\ vblock = <<>>
IdleConv   == /\ cv = <<>>
              /\ engine = <<>>
              /\ kern = <<>>
              /\ IdleAux
IdleInterp == /\ stage_details = <<>>
              /\ this_fn = <<>>
              /\ built_fn = <<>>
              /\ out = <<>>
IdleGuard  == /\ variable = UndefinedVariable
              /\ version_counter = <<>>
              /\ acc_alive = {}
              /\ sv = EmptySavedVariable
              /\ ret = NoRet
              /\ hist = NoHist

InitGuard ==
  /\ variable \in VariableChoices
  /\ version_counter = [c \in {TheCounter} |-> 0]
  /\ acc_alive = {TheAcc}
  /\ sv = EmptySavedVariable
  /\ ret = NoRet
  /\ hist = NoHist
  /\ IdleConv
  /\ IdleInterp

\* SavedVariable(variable, is_output)
Capture(is_output) ==
  /\ ~hist.captured
  /\ sv' = SavedVariableCtor(variable, is_output, version_counter)
  /\ hist' = [NoHist EXCEPT !.captured = TRUE, !.is_output = is_output,
                            !.from = variable]
  /\ UNCHANGED <<variable, version_counter, acc_alive, ret>>
  /\ UNCHANGED <<convVars, interpVars>>

\* an in-place operation on the live value bumps its version block
InPlace ==
  /\ variable.defined
  /\ TotalMutations(version_counter) < MaxVersion
  /\ version_counter' =
       [version_counter EXCEPT ![variable.vc] = version_counter[variable.vc] + 1]
  /\ hist' = IF hist.captured THEN [hist EXCEPT !.mutated = TRUE] ELSE hist
  /\ UNCHANGED <<variable, acc_alive, sv, ret>>
  /\ UNCHANGED <<convVars, interpVars>>

\* sv.unpack(saved_for); ret records the call and the guard's history at the call
Unpack(saved_for) ==
  /\ hist.captured
  /\ LET r == unpack(sv, saved_for, version_counter, acc_alive)
     IN ret' = [status |-> r.status, var |-> r.var, saved_for |-> saved_for,
                when |-> hist, alive |-> acc_alive]
  /\ UNCHANGED <<variable, version_counter, acc_alive, sv, hist>>
  /\ UNCHANGED <<convVars, interpVars>>

\* sv.data.reset()
ReleaseData ==
  /\ hist.captured
  /\ ~hist.released
  /\ sv' = reset_data(sv)
  /\ hist' = [hist EXCEPT !.released = TRUE]
  /\ UNCHANGED <<variable, version_counter, acc_alive, ret>>
  /\ UNCHANGED <<convVars, interpVars>>

\* the last strong owner of the leaf's grad accumulator goes away
ExpireAccumulator ==
  /\ acc_alive # {}
  /\ acc_alive' = {}
  /\ UNCHANGED <<variable, version_counter, sv, ret, hist>>
  /\ UNCHANGED <<convVars, interpVars>>

NextGuard ==
  \/ \E is_output \in BOOLEAN : Capture(is_output)
  \/ InPlace
  \/ \E saved_for \in {NoFn, OtherFn} : Unpack(saved_for)
  \/ ReleaseData
  \/ ExpireAccumulator

SpecGuard == InitGuard /\ [][NextGuard]_vars

----------------------------------------------------------------------------
(* Claims on SavedVariable, under SpecGuard *)

Unpacked == ret.status # NONE

\* the producer the guard needs is at hand: stored, or passed as saved_for
ProducerAtHand ==
  (~is_leaf(ret.when.from) /\ ret.when.is_output) => ret.saved_for # NoFn

\* the accumulator a grad-requiring leaf needs has not expired
AccumulatorAtHand ==
  (is_leaf(ret.when.from) /\ ret.when.from.requires_grad) => TheAcc \in ret.alive

\* C2 as stated: a value mutated in place between capture and unpack always
\* makes unpack fail with the in-place message, and a value that was not
\* mutated always unpacks successfully.
C2_Original ==
  (Unpacked /\ ret.when.from.defined) =>
     /\ ret.when.mutated  => ret.status = ERR_INPLACE_MODIFIED
     /\ ~ret.when.mutated => ret.status = OK

\* C2 amended: for a guard whose data was not released, unpack fails with
\* the in-place message exactly when the value was mutated since capture;
\* an unmutated value unpacks successfully whenever its producer is at hand
\* and its accumulator has not expired.
C2_StaleVersion ==
  (Unpacked /\ ret.when.from.defined /\ ~ret.when.released) =>
     /\ ret.when.mutated <=> ret.status = ERR_INPLACE_MODIFIED
     /\ (~ret.when.mutated /\ ProducerAtHand /\ AccumulatorAtHand)
           => ret.status = OK

C2_Witness ==
  /\ ret.when.from.defined /\ ~ret.when.released /\ ret.when.mutated
  /\ ret.status = ERR_INPLACE_MODIFIED

\* C3: once a guard captured from a defined value was released, every unpack
\* fails with the backward-twice message, for every saved_for and every
\* version state.
C3_ReleasedFails ==
  (Unpacked /\ ret.when.from.defined /\ ret.when.released) =>
     ret.status = ERR_BACKWARD_TWICE

C3_Witness ==
  /\ ret.when.from.defined /\ ret.when.released /\ ret.when.mutated
  /\ ret.saved_for = OtherFn
  /\ ret.status = ERR_BACKWARD_TWICE

\* the last unpack found a guard of a defined value that was neither
\* released nor mutated since its capture
Fresh == Unpacked /\ ret.when.from.defined
           /\ ~ret.when.released /\ ~ret.when.mutated

\* the last unpack was of a guard of a leaf that requires grad
OfGradLeaf == ret.when.from.defined /\ is_leaf(ret.when.from)
                /\ ret.when.from.requires_grad

C15_EmptyGuard ==
  /\ (hist.captured /\ ~hist.from.defined) =>
       /\ sv = EmptySavedVariable
       /\ sv.data = NoData /\ sv.version = NoCounter /\ sv._grad_fn = NoFn
  /\ (Unpacked /\ ~ret.when.from.defined) =>
       (ret.status = UNDEFINED /\ ret.var = UndefinedVariable)

C15_Witness ==
  /\ Unpacked
  /\ ~ret.when.from.defined
  /\ ret.when.released
  /\ ret.saved_for = OtherFn
  /\ ret.status = UNDEFINED

\* C16: a guard captured with is_output stores no producer, whatever the
\* value; a guard captured without it stores the producer of the value, and
\* a successful unpack binds the handle to that producer for every saved_for.
C16_OutputOwnsNoProducer ==
  /\ hist.captured =>
       sv._grad_fn = IF hist.is_output THEN NoFn ELSE hist.from.grad_fn
  /\ (Unpacked /\ ret.status = OK /\ ~ret.when.is_output) =>
       ret.var.grad_fn = ret.when.from.grad_fn

C16_Witness ==
  /\ Unpacked
  /\ ret.status = OK
  /\ ~ret.when.is_output
  /\ ~is_leaf(ret.when.from)
  /\ ret.saved_for = OtherFn
  /\ ret.var.grad_fn = TheFn
  /\ sv._grad_fn = TheFn

\* C17: a successful unpack returns a handle with the captured data and the
\* captured version counter; it has a producer, with the captured output_nr,
\* exactly when the captured value had one, and is otherwise a leaf with the
\* captured requires_grad and grad accumulator.
C17_RoundTrip ==
  (Unpacked /\ ret.status = OK) =>
     LET from == ret.when.from
         var  == ret.var
     IN /\ var.defined
        /\ var.data = from.data
        /\ var.vc = from.vc
        /\ is_leaf(var) <=> is_leaf(from)
        /\ (var.grad_fn # NoFn) <=> ~is_leaf(var)
        /\ ~is_leaf(from) =>
             (var.output_nr = from.output_nr /\ var.requires_grad)
        /\ is_leaf(from) =>
             /\ var.requires_grad = from.requires_grad
             /\ var.grad_accumulator = from.grad_accumulator

C17_Witness ==
  /\ Unpacked
  /\ ret.status = OK
  /\ ~is_leaf(ret.when.from)
  /\ ret.when.is_output
  /\ ret.var.output_nr = MaxOutputNr
  /\ ret.var.vc = TheCounter
  /\ ret.var.data = TheData


\* the outcome the order of unpack's tests gives for the guard's history at
\* the call: released, then mutated, then producer missing, then accumulator
\* expired
FirstFailure(when, saved_for, alive) ==
  IF ~when.from.defined THEN UNDEFINED
  ELSE IF when.released THEN ERR_BACKWARD_TWICE
  ELSE IF when.mutated THEN ERR_INPLACE_MODIFIED
  ELSE IF ~is_leaf(when.from) /\ when.is_output /\ saved_for = NoFn
  THEN ERR_NO_GRAD_FN
  ELSE IF is_leaf(when.from) /\ when.from.requires_grad /\ TheAcc \notin alive
  THEN ERR_NO_ACCUMULATOR
  ELSE OK

\* C33: unpack tests its failure conditions in a fixed order: data released
\* (backward-twice message, or an undefined result for an empty guard), then
\* version modified, then producer missing, then accumulator expired; when
\* several hold, the first in this order is reported.  An unpack changes
\* neither the guard nor what happened to it.
C33_CheckOrder ==
  /\ [](Unpacked =>
          ret.status = FirstFailure(ret.when, ret.saved_for, ret.alive))
  /\ [][ret' # ret => (sv' = sv /\ hist' = hist)]_vars

\* a guard that was mutated and released reports the release, and a mutated
\* output guard unpacked without saved_for reports the mutation
C33_Witness ==
  /\ Unpacked
  /\ ret.when.from.defined
  /\ ret.when.mutated
  /\ ret.when.released
  /\ ~is_leaf(ret.when.from)
  /\ ret.when.is_output
  /\ ret.saved_for = NoFn
  /\ ret.status = ERR_BACKWARD_TWICE

----------------------------------------------------------------------------
(* SpecConv: ConvForward, ConvBackward, ConvBackwardBackward and the       *)
(* backward passes that run them                                          *)

ERR_EXPECTED_VARIABLE   == "expected Variable at argument"
ERR_NEG_PADDING         == "negative padding is not supported"
ERR_NEG_OUTPUT_PADDING  == "negative output_padding is not supported"
ERR_TRANSPOSED_BACKWARD == "ConvBackwardBackward does not support transposed convolution"

PadVals == {-1, 0}
Dims    == {1, 2}

\* ConvParams::is_padding_neg
is_padding_neg(params) == \E d \in Dims : params.padding[d] < 0

\* ConvParams::is_output_padding_neg
is_output_padding_neg(params) == \E d \in Dims : params.output_padding[d] < 0

ParamChoices ==
  [padding : [Dims -> PadVals], output_padding : [Dims -> PadVals],
   transposed : BOOLEAN]

\* check_input_variables(name, inputs, args, required_args): the arity test
\* every apply starts with; TRUE when it throws
check_input_variables(inputs, args, required_args) ==
  \/ Len(inputs) # args
  \/ \E i \in 1..required_args : ~inputs[i].defined

\* Function::flags(inputs).is_executable
is_executable(inputs) == \E i \in 1..Len(inputs) : inputs[i].requires_grad

CBGuards  == {"input_", "weight_", "bias_"}
CBBGuards == {"input_", "weight_", "bias_", "grad_output_"}
AllGuards == CBBGuards

\* a node that was not constructed (yet)
NullNode ==
  [exists |-> FALSE, params |-> <<>>,
   guards |-> [g \in AllGuards |-> EmptySavedVariable],
   unpacked |-> [g \in AllGuards |-> 0],
   applied |-> 0, released |-> FALSE, retained |-> FALSE]

\* ConvBackward(flags, params, input, weight, bias, ...): the node saves its
\* three inputs; none of them is an output of the node
ConvBackwardCtor(params, input, weight, bias, vcs) ==
  [NullNode EXCEPT
     !.exists = TRUE,
     !.params = params,
     !.guards = [g \in AllGuards |->
        CASE g = "input_"  -> SavedVariableCtor(input, FALSE, vcs)
          [] g = "weight_" -> SavedVariableCtor(weight, FALSE, vcs)
          [] g = "bias_"   -> SavedVariableCtor(bias, FALSE, vcs)
          [] OTHER         -> EmptySavedVariable]]

\* ConvBackwardBackward(flags, params, input, weight, bias, grad_output)
ConvBackwardBackwardCtor(params, input, weight, bias, grad_output, vcs) ==
  [NullNode EXCEPT
     !.exists = TRUE,
     !.params = params,
     !.guards = [g \in AllGuards |->
        CASE g = "input_"       -> SavedVariableCtor(input, FALSE, vcs)
          [] g = "weight_"      -> SavedVariableCtor(weight, FALSE, vcs)
          [] g = "bias_"        -> SavedVariableCtor(bias, FALSE, vcs)
          [] g = "grad_output_" -> SavedVariableCtor(grad_output, FALSE, vcs)]]

\* the guards an apply unpacks, in the order of its unpack calls; each call
\* stops the apply when it throws
RECURSIVE UnpackAll(_, _, _, _)
UnpackAll(node, order, vcs, alive) ==
  IF order = <<>> THEN [status |-> OK, done |-> <<>>, vars |-> <<>>]
  ELSE LET r == unpack(node.guards[Head(order)], NoFn, vcs, alive)
       IN IF r.status \notin {OK, UNDEFINED}
          THEN [status |-> r.status, done |-> <<>>, vars |-> <<>>]
          ELSE LET rest == UnpackAll(node, Tail(order), vcs, alive)
               IN [status |-> rest.status,
                   done   |-> <<Head(order)>> \o rest.done,
                   vars   |-> IF rest.status = OK
                              THEN <<r.var>> \o rest.vars ELSE <<>>]

\* the number of times guard g appears in a sequence of unpack calls
RECURSIVE Count(_, _)
Count(seq, g) ==
  IF seq = <<>> THEN 0
  ELSE (IF Head(seq) = g THEN 1 ELSE 0) + Count(Tail(seq), g)

\* ConvForward::apply(inputs), up to the construction of its backward node
ConvForward_apply(params, inputs, vcs) ==
  IF check_input_variables(inputs, 3, 2)
  THEN [status |-> ERR_EXPECTED_VARIABLE, grad_fn |-> NullNode]
  ELSE IF is_padding_neg(params)
  THEN [status |-> ERR_NEG_PADDING, grad_fn |-> NullNode]
  ELSE IF is_output_padding_neg(params)
  THEN [status |-> ERR_NEG_OUTPUT_PADDING, grad_fn |-> NullNode]
  ELSE [status  |-> OK,
        grad_fn |-> IF is_executable(inputs)
                    THEN ConvBackwardCtor(params, inputs[1], inputs[2],
                                          inputs[3], vcs)
                    ELSE NullNode]

\* the unpack calls of ConvBackward::apply, in order
ConvBackward_unpacks == <<"input_", "weight_", "bias_">>

\* ConvBackward::apply(grad_outputs)
ConvBackward_apply(node, grad_outputs, vcs, alive) ==
  IF check_input_variables(grad_outputs, 1, 1)
  THEN [status |-> ERR_EXPECTED_VARIABLE, done |-> <<>>, grad_fn |-> NullNode]
  ELSE IF is_padding_neg(node.params)
  THEN [status |-> ERR_NEG_PADDING, done |-> <<>>, grad_fn |-> NullNode]
  ELSE IF is_output_padding_neg(node.params)
  THEN [status |-> ERR_NEG_OUTPUT_PADDING, done |-> <<>>, grad_fn |-> NullNode]
  ELSE
    LET u == UnpackAll(node, ConvBackward_unpacks, vcs, alive)
    IN IF u.status # OK
       THEN [status |-> u.status, done |-> u.done, grad_fn |-> NullNode]
       ELSE
         LET input_var  == u.vars[1]
             weight_var == u.vars[2]
             bias_var   == u.vars[3]
             all_inputs == grad_outputs \o <<input_var, weight_var>>
         IN [status  |-> OK,
             done    |-> u.done,
             grad_fn |-> IF is_executable(all_inputs)
                         THEN ConvBackwardBackwardCtor(node.params, input_var,
                                weight_var, bias_var, grad_outputs[1], vcs)
                         ELSE NullNode]

\* the unpack calls of ConvBackwardBackward::apply, in order: input_ is
\* unpacked a second time for the ggW term
ConvBackwardBackward_unpacks(ggW) ==
  <<"grad_output_", "weight_", "input_">>
    \o (IF ggW.defined THEN <<"input_">> ELSE <<>>)

\* ConvBackwardBackward::apply(grad_grad_inputs)
ConvBackwardBackward_apply(node, grad_grad_inputs, vcs, alive) ==
  IF check_input_variables(grad_grad_inputs, 3, 0)
  THEN [status |-> ERR_EXPECTED_VARIABLE, done |-> <<>>, grad_fn |-> NullNode]
  ELSE IF node.params.transposed
  THEN [status |-> ERR_TRANSPOSED_BACKWARD, done |-> <<>>, grad_fn |-> NullNode]
  ELSE
    LET u == UnpackAll(node, ConvBackwardBackward_unpacks(grad_grad_inputs[2]),
                       vcs, alive)
    IN [status |-> u.status, done |-> u.done, grad_fn |-> NullNode]

\* a release that leaves the guards as they are
releaseVariables_nothing(node, which) == node

\* ConvBackward::releaseVariables / ConvBackwardBackward::releaseVariables
releaseVariables(node, which) ==
  [node EXCEPT !.guards =
     [g \in AllGuards |-> IF g \in which THEN reset_data(node.guards[g])
                          ELSE node.guards[g]]]

\* the values the forward pass is given, and the gradient the engine seeds
ConvCounters == {"input", "weight", "bias", "grad_output"}

\* the input is a plain value or the output of an earlier layer; weight and
\* bias are parameters of the layer, and the bias is optional
InputChoices ==
  {LeafVariable("input", FALSE, "input", NoAcc),
   FnVariable("input", 0, "producer of input", "input")}

WeightChoices ==
  {LeafVariable("weight", rg, "weight", IF rg THEN "weight" ELSE NoAcc)
     : rg \in BOOLEAN}

BiasChoices ==
  {UndefinedVariable, LeafVariable("bias", TRUE, "bias", "bias")}

GradChoices ==
  {LeafVariable("grad_output", rg, "grad_output",
                IF rg THEN "grad_output" ELSE NoAcc) : rg \in BOOLEAN}

\* the gradients of the gradients a second-order pass delivers
GradGradChoices ==
  {UndefinedVariable, LeafVariable("grad_grad", FALSE, "grad_grad", NoAcc)}

NoPass == [node |-> NONE, status |-> NONE, done |-> <<>>,
           released_before |-> FALSE]

InitConv ==
  /\ cv \in [params : ParamChoices, input : InputChoices,
             weight : WeightChoices, bias : BiasChoices,
             grad_output : GradChoices, fwd : {NONE},
             cb : {NullNode}, cbb : {NullNode}]
  /\ engine = [last |-> NoPass]
  /\ kern = <<>>
  /\ IdleAux
  /\ version_counter = [c \in ConvCounters |-> 0]
  /\ acc_alive = ConvCounters
  /\ variable = UndefinedVariable
  /\ sv = EmptySavedVariable
  /\ ret = NoRet
  /\ hist = NoHist
  /\ IdleInterp

guardOnly == <<variable, sv, ret, hist, kern, auxVars>>

\* the forward pass: ConvForward::apply(input, weight, bias)
Forward ==
  /\ cv.fwd = NONE
  /\ LET r == ConvForward_apply(cv.params, <<cv.input, cv.weight, cv.bias>>,
                                version_counter)
     IN cv' = [cv EXCEPT !.fwd = r.status, !.cb = r.grad_fn]
  /\ UNCHANGED <<engine, version_counter, acc_alive, guardOnly, interpVars>>

\* an in-place operation on one of the values the graph saved
InPlaceConv(which) ==
  /\ cv.cb.exists
  /\ cv[which].defined
  /\ TotalMutations(version_counter) < MaxVersion
  /\ version_counter' =
       [version_counter EXCEPT ![which] = version_counter[which] + 1]
  /\ UNCHANGED <<cv, engine, acc_alive, guardOnly, interpVars>>

\* unpack calls and applies are counted as none, one, or two and more
AtMostTwo(n) == IF n > 2 THEN 2 ELSE n

\* the node after the engine ran its apply with outcome r: without the
\* retain option a successful apply is followed by releaseVariables()
AfterApply(node, r, retain, which) ==
  LET counted == [node EXCEPT
                    !.unpacked = [g \in AllGuards |->
                                    AtMostTwo(node.unpacked[g] + Count(r.done, g))],
                    !.applied  = IF r.status = OK THEN AtMostTwo(@ + 1) ELSE @,
                    !.retained = @ \/ retain]
  IN IF r.status = OK /\ ~retain
     THEN [releaseVariables(counted, which) EXCEPT !.released = TRUE]
     ELSE counted

PassRecord(name, node, r) ==
  [node |-> name, status |-> r.status, done |-> r.done,
   released_before |-> node.released]

\* a backward pass reaches the ConvBackward node with the seeded gradient
BackwardPass(retain) ==
  /\ cv.cb.exists
  /\ LET r == ConvBackward_apply(cv.cb, <<cv.grad_output>>, version_counter,
                                 acc_alive)
     IN /\ cv' = [cv EXCEPT
                    !.cb  = AfterApply(cv.cb, r, retain, CBGuards),
                    !.cbb = IF r.status = OK THEN r.grad_fn ELSE @]
        /\ engine' = [last |-> PassRecord("ConvBackward", cv.cb, r)]
  /\ UNCHANGED <<version_counter, acc_alive, guardOnly, interpVars>>

\* a backward pass over the gradients reaches the ConvBackwardBackward node
DoubleBackwardPass(retain, ggI, ggW, ggb) ==
  /\ cv.cbb.exists
  /\ LET r == ConvBackwardBackward_apply(cv.cbb, <<ggI, ggW, ggb>>,
                                         version_counter, acc_alive)
     IN /\ cv' = [cv EXCEPT !.cbb = AfterApply(cv.cbb, r, retain, CBBGuards)]
        /\ engine' = [last |-> PassRecord("ConvBackwardBackward", cv.cbb, r)]
  /\ UNCHANGED <<version_counter, acc_alive, guardOnly, interpVars>>

NextConv ==
  \/ Forward
  \/ \E which \in {"input", "weight", "bias", "grad_output"} : InPlaceConv(which)
  \/ \E retain \in BOOLEAN : BackwardPass(retain)
  \/ \E retain \in BOOLEAN : \E ggI, ggW, ggb \in GradGradChoices :
       DoubleBackwardPass(retain, ggI, ggW, ggb)

SpecConv == InitConv /\ [][NextConv]_vars

----------------------------------------------------------------------------
(* Claims on the convolution nodes, under SpecConv *)

ConvNodes == {"cb", "cbb"}
GuardsOf(n) == IF n = "cb" THEN CBGuards ELSE CBBGuards

\* C1: once a backward pass without the retain option has run a node (its
\* apply succeeded and releaseVariables() followed), every later pass that
\* reaches the node fails with the backward-twice message.
C1_SecondPassFails ==
  (engine.last.node # NONE /\ engine.last.released_before) =>
     engine.last.status = ERR_BACKWARD_TWICE

C1_Witness ==
  /\ engine.last.node = "ConvBackward"
  /\ engine.last.released_before
  /\ engine.last.status = ERR_BACKWARD_TWICE
  /\ version_counter["input"] > 0

\* C6 as stated: without the retain option no guard is unpacked successfully
\* more than once.
C6_Original ==
  \A n \in ConvNodes : \A g \in GuardsOf(n) :
    ~cv[n].retained => cv[n].unpacked[g] <= 1

\* C6 amended: without the retain option a node's apply succeeds at most
\* once, since releaseVariables() follows it; after the release the data of
\* every guard of the node is cleared and no guard of it unpacks again.
\* (Before the release unpack consumes nothing: one apply may unpack a guard
\* twice.)
C6_ReleasedOnce ==
  /\ \A n \in ConvNodes :
       /\ ~cv[n].retained => cv[n].applied <= 1
       /\ cv[n].released =>
            \A g \in GuardsOf(n) : cv[n].guards[g].data = NoData
  /\ (engine.last.node # NONE /\ engine.last.released_before) =>
        engine.last.done = <<>>

C6_Witness ==
  /\ engine.last.node = "ConvBackwardBackward"
  /\ engine.last.released_before
  /\ ~cv.cbb.retained
  /\ engine.last.done = <<>>
  /\ cv.cbb.unpacked["input_"] = 2
  /\ cv.cbb.guards["input_"].data = NoData

----------------------------------------------------------------------------
(* SpecKernel: the computation of ConvForward::apply and ConvBackward::apply *)
(* once their checks and unpacks have passed                               *)

MaxGroups == 3   \* groups of a convolution

\* an at::Tensor, as far as the group split sees it: its extent in dims 0 and
\* 1, where a narrowed view starts in them, the kernel call it came out of,
\* and for a concatenation its parts and dim
NoTensor ==
  [defined |-> FALSE, name |-> NoData, size |-> <<0, 0>>, start |-> <<0, 0>>,
   call |-> -1, parts |-> <<>>, dim |-> -1]

ATensor(name, size0, size1) ==
  [NoTensor EXCEPT !.defined = TRUE, !.name = name, !.size = <<size0, size1>>]

\* the tensor a kernel call returns: call g's result of that name
ResultOf(name, g) == [NoTensor EXCEPT !.defined = TRUE, !.name = name, !.call = g]

\* a split that hands every group the first slice
subtensor_first(tensor, dim, groups, g) ==
  IF ~tensor.defined THEN NoTensor
  ELSE LET n == tensor.size[dim + 1] \div groups
       IN [tensor EXCEPT !.size[dim + 1] = n]

\* subtensor(tensor, dim, groups, g): tensor.narrow(dim, n * g, n)
subtensor(tensor, dim, groups, g) ==
  IF ~tensor.defined THEN NoTensor
  ELSE LET n == tensor.size[dim + 1] \div groups
       IN [tensor EXCEPT !.size[dim + 1] = n,
                         !.start[dim + 1] = @ + n * g]

\* a concatenation that takes the groups' results last group first
cat_reversed(tensors, dim) ==
  IF Len(tensors) = 0 THEN NoTensor
  ELSE [NoTensor EXCEPT !.defined = TRUE, !.name = "cat",
                        !.parts = [k \in 1..Len(tensors) |->
                                     tensors[Len(tensors) + 1 - k]],
                        !.dim = dim]

\* cat(tensors, dim)
cat(tensors, dim) ==
  IF Len(tensors) = 0 THEN NoTensor
  ELSE [NoTensor EXCEPT !.defined = TRUE, !.name = "cat",
                        !.parts = tensors, !.dim = dim]

\* ConvParams::is_depthwise(input, weight, groups)
is_depthwise(p) ==
  /\ p.is_cuda
  /\ ~p.transposed
  /\ p.ndim = 4
  /\ p.input.size[2] = p.groups
  /\ p.groups > 1
  /\ p.weight.size[1] % p.input.size[2] = 0

\* ConvParams::use_cudnn(input): false in a build without cuDNN
use_cudnn(p) == p.with_cudnn /\ p.is_cuda /\ p.cudnn_usable

\* the branch an apply takes
BackendOf(p) ==
  IF is_depthwise(p) THEN "depthwise"
  ELSE IF use_cudnn(p) THEN "cudnn"
  ELSE IF p.groups = 1 THEN "single"
  ELSE "grouped"

\* one call of a kernel: its tensors, the columns/ones buffers it was
\* handed, and the output mask it was given
KernelCall(kernel, tensors, g, mask) ==
  [kernel |-> kernel, tensors |-> tensors, buffers |-> g, mask |-> mask]

NoMask == <<>>

\* compute_output(input, weight, bias, columns, ones, params)
compute_output(input, weight, bias, g) ==
  [call   |-> KernelCall("compute_output", <<input, weight, bias>>, g, NoMask),
   output |-> ResultOf("output", g)]

\* compute_backward(input, grad_output, weight, columns, ones, params,
\* output_mask): the kernel returns the gradients its mask asks for
compute_backward(input, grad_output, weight, g, mask) ==
  [call |-> KernelCall("compute_backward", <<input, grad_output, weight>>, g, mask),
   grad_input  |-> IF mask[1] THEN ResultOf("grad_input", g) ELSE NoTensor,
   grad_weight |-> IF mask[2] THEN ResultOf("grad_weight", g) ELSE NoTensor,
   grad_bias   |-> IF mask[3] THEN ResultOf("grad_bias", g) ELSE NoTensor]

\* ConvForward::apply, from the choice of the backend to the output
ConvForward_compute(p) ==
  LET path == BackendOf(p)
  IN CASE path = "depthwise" ->
            [path |-> path, output |-> ResultOf("output", 0),
             calls |-> <<KernelCall("conv_depthwise2d_forward",
                                    <<p.input, p.weight, p.bias>>, -1, NoMask)>>]
       [] path = "cudnn" ->
            [path |-> path, output |-> ResultOf("output", 0),
             calls |-> <<KernelCall("cudnn_convolution_full_forward",
                                    <<p.input, p.weight, p.bias>>, -1, NoMask)>>]
       [] path = "single" ->
            LET r == compute_output(p.input, p.weight, p.bias, 0)
            IN [path |-> path, output |-> r.output, calls |-> <<r.call>>]
       [] OTHER ->
            LET r == [k \in 1..p.groups |->
                        compute_output(subtensor(p.input, 1, p.groups, k - 1),
                                       subtensor(p.weight, 0, p.groups, k - 1),
                                       subtensor(p.bias, 0, p.groups, k - 1),
                                       k - 1)]
            IN [path   |-> path,
                output |-> cat([k \in 1..p.groups |-> r[k].output], 1),
                calls  |-> [k \in 1..p.groups |-> r[k].call]]

\* a mask that takes the request for the bias gradient as it comes
output_mask_requested(request, bias) == request

\* output_mask: should_compute_output(0), (1), and (2) && bias.defined()
output_mask(request, bias) ==
  <<request[1], request[2], request[3] /\ bias.defined>>

NoForward  == [path |-> NONE, output |-> NoTensor, calls |-> <<>>]
NoBackward ==
  [path |-> NONE, output_mask |-> <<FALSE, FALSE, FALSE>>, calls |-> <<>>,
   grad_input |-> NoTensor, grad_weight |-> NoTensor, grad_bias |-> NoTensor]

\* ConvBackward::apply, from the output mask to the gradients it returns;
\* request[i + 1] is should_compute_output(i)
ConvBackward_compute(p, request) ==
  LET path == BackendOf(p)
      mask == output_mask(request, p.bias)
      args == <<p.input, p.grad_output, p.weight>>
  IN CASE path = "depthwise" ->
            [NoBackward EXCEPT
               !.path = path, !.output_mask = mask,
               !.calls =
                 (IF mask[1] \/ mask[2]
                  THEN <<KernelCall("conv_depthwise2d_backward", args, -1,
                                    <<mask[1], mask[2]>>)>>
                  ELSE <<>>)
                 \o (IF mask[3]
                     THEN <<KernelCall("compute_grad_bias", <<p.grad_output>>,
                                       -1, NoMask)>>
                     ELSE <<>>),
               !.grad_input  = IF mask[1] THEN ResultOf("grad_input", 0)
                               ELSE NoTensor,
               !.grad_weight = IF mask[2] THEN ResultOf("grad_weight", 0)
                               ELSE NoTensor,
               !.grad_bias   = IF mask[3] THEN ResultOf("grad_bias", 0)
                               ELSE NoTensor]
       [] path = "cudnn" ->
            [NoBackward EXCEPT
               !.path = path, !.output_mask = mask,
               !.calls =
                 (IF mask[1]
                  THEN <<KernelCall(IF p.transposed
                                    THEN "cudnn_convolution_forward"
                                    ELSE "cudnn_convolution_backward_data",
                                    args, -1, NoMask)>>
                  ELSE <<>>)
                 \o (IF mask[2] \/ mask[3]
                     THEN <<KernelCall("cudnn_convolution_backward_filter",
                                       args, -1, NoMask)>>
                     ELSE <<>>)
                 \o (IF mask[3]
                     THEN <<KernelCall("cudnn_convolution_backward_bias",
                                       <<p.grad_output>>, -1, NoMask)>>
                     ELSE <<>>),
               !.grad_input  = IF mask[1] THEN ResultOf("grad_input", 0)
                               ELSE NoTensor,
               !.grad_weight = IF mask[2] \/ mask[3]
                               THEN ResultOf("grad_weight", 0) ELSE NoTensor,
               !.grad_bias   = IF mask[3] THEN ResultOf("grad_bias", 0)
                               ELSE NoTensor]
       [] path = "single" ->
            LET r == compute_backward(p.input, p.grad_output, p.weight, 0, mask)
            IN [path |-> path, output_mask |-> mask, calls |-> <<r.call>>,
                grad_input |-> r.grad_input, grad_weight |-> r.grad_weight,
                grad_bias |-> r.grad_bias]
       [] OTHER ->
            LET r == [k \in 1..p.groups |->
                        compute_backward(
                          subtensor(p.input, 1, p.groups, k - 1),
                          subtensor(p.grad_output, 1, p.groups, k - 1),
                          subtensor(p.weight, 0, p.groups, k - 1),
                          k - 1, mask)]
            IN [path |-> path, output_mask |-> mask,
                calls |-> [k \in 1..p.groups |-> r[k].call],
                grad_input  |-> IF mask[1]
                   THEN cat([k \in 1..p.groups |-> r[k].grad_input], 1)
                   ELSE NoTensor,
                grad_weight |-> IF mask[2]
                   THEN cat([k \in 1..p.groups |-> r[k].grad_weight], 0)
                   ELSE NoTensor,
                grad_bias   |-> IF mask[3]
                   THEN cat([k \in 1..p.groups |-> r[k].grad_bias], 0)
                   ELSE NoTensor]

\* channels of one group, on the input and on the output side
ChannelsPerGroup == {1, 2}

\* the convolutions: the shapes agree with the groups, as
\* check_input_shape_forward has required
KernelChoices ==
  {[groups |-> g, is_cuda |-> cuda, with_cudnn |-> build, cudnn_usable |-> usable,
    transposed |-> tr, ndim |-> nd,
    input |-> ATensor("input", 1, g * cin),
    weight |-> ATensor("weight", g * cout, cin),
    bias |-> IF b THEN ATensor("bias", g * cout, 0) ELSE NoTensor,
    grad_output |-> ATensor("grad_output", 1, g * cout)]
     : g \in 1..MaxGroups, cin \in ChannelsPerGroup, cout \in ChannelsPerGroup,
       cuda \in BOOLEAN, build \in BOOLEAN, usable \in BOOLEAN,
       tr \in BOOLEAN, nd \in {4, 5}, b \in BOOLEAN}

Requests == [1..3 -> BOOLEAN]

InitKernel ==
  /\ \E p \in KernelChoices :
       kern = [p |-> p, fwd |-> NoForward, bwd |-> NoBackward,
               request |-> <<FALSE, FALSE, FALSE>>]
  /\ cv = <<>>
  /\ engine = <<>>
  /\ IdleAux
  /\ IdleGuard
  /\ IdleInterp

\* the forward pass computes its output
ForwardCompute ==
  /\ kern.fwd.path = NONE
  /\ kern' = [kern EXCEPT !.fwd = ConvForward_compute(kern.p)]
  /\ UNCHANGED <<cv, engine, auxVars, guardVars, interpVars>>

\* a backward pass computes the gradients its consumers asked for
BackwardCompute(request) ==
  /\ kern.fwd.path # NONE
  /\ kern' = [kern EXCEPT !.bwd = ConvBackward_compute(kern.p, request),
                          !.request = request]
  /\ UNCHANGED <<cv, engine, auxVars, guardVars, interpVars>>

NextKernel ==
  \/ ForwardCompute
  \/ \E request \in Requests : BackwardCompute(request)

SpecKernel == InitKernel /\ [][NextKernel]_vars

----------------------------------------------------------------------------
(* SpecInterp: the staged interpreter node, InterpreterAutogradFunction    *)

MaxStages  == 3   \* stage entries of a compiled program (nderivs + 1)
NumInputs  == 2   \* inputs of a stage
NumOutputs == 2   \* outputs of a stage

ERR_NDERIVS        == "Function compiled only for n derivatives"
ERR_TRACED_UNDEFINED == "received a defined input, but the trace was compiled with the input being undefined"
ERR_TRACED_NO_GRAD   == "requires_grad=True, but was compiled with requires_grad=False"

\* VariableFlags::of(var): an undefined Variable does not require grad
VariableFlags ==
  {[defined |-> FALSE, requires_grad |-> FALSE],
   [defined |-> TRUE,  requires_grad |-> FALSE],
   [defined |-> TRUE,  requires_grad |-> TRUE]}

GradFlags == [defined |-> TRUE, requires_grad |-> TRUE]
NoGradFlags == [defined |-> TRUE, requires_grad |-> FALSE]

\* the live Variables an apply is given: undefined, a leaf (with a grad
\* accumulator when it requires grad), or the output output_nr of a grad_fn
UndefinedInput ==
  [defined |-> FALSE, requires_grad |-> FALSE, has_grad_fn |-> FALSE,
   output_nr |-> 0]
LeafInput(rg) ==
  [defined |-> TRUE, requires_grad |-> rg, has_grad_fn |-> FALSE,
   output_nr |-> 0]
ProducedInput(nr) ==
  [defined |-> TRUE, requires_grad |-> TRUE, has_grad_fn |-> TRUE,
   output_nr |-> nr]

\* the tensors apply hands to the interpreter
UndefinedTensor  == [kind |-> "undefined", input |-> 0]
DataOf(i)        == [kind |-> "data", input |-> i]
\* zeroTensorWithType(interp_.tensorTypeForInput(i))
zeroTensorWithType(i) == [kind |-> "zeros", input |-> i]

\* an empty edge; the edge to the producer of input i, which is its grad_fn
\* or else its grad accumulator, with its output_nr; and edge k of those a
\* node was given by its maker
NullEdge == [function |-> NoFn, of_input |-> 0, input_nr |-> 0]
EdgeOfInput(i, input) ==
  [function |-> IF input.has_grad_fn THEN "grad_fn" ELSE "grad_accumulator",
   of_input |-> i, input_nr |-> input.output_nr]
ExternalEdge(k) == [function |-> "external", of_input |-> k, input_nr |-> 0]

NullFn ==
  [exists |-> FALSE, stage_ |-> 0, used_ |-> FALSE, keep_graph_ |-> FALSE,
   interp_ |-> 0, next_functions |-> <<>>,
   applied |-> 0]       \* history: applies of this node so far, up to two

\* InterpreterAutogradFunction(code, stage_details): what construct() returns
NewFn(kg) == [NullFn EXCEPT !.exists = TRUE, !.keep_graph_ = kg]

\* stage_details_[stage]
DetailsOf(details, stage) == details[stage + 1]

\* a validation that compares the defined flags only
FirstRejected_defined(traced, inputs) ==
  LET bad == {i \in 1..Len(inputs) : ~traced[i].defined /\ inputs[i].defined}
  IN IF bad = {} THEN 0 ELSE CHOOSE i \in bad : \A j \in bad : i <= j

\* the first input the validation loop rejects, 0 when it accepts them all
FirstRejected(traced, inputs) ==
  LET bad == {i \in 1..Len(inputs) :
                \/ ~traced[i].defined /\ inputs[i].defined
                \/ ~traced[i].requires_grad /\ inputs[i].requires_grad}
  IN IF bad = {} THEN 0 ELSE CHOOSE i \in bad : \A j \in bad : i <= j

\* the message thrown for input i
RejectedWith(traced_flags, actual_flags) ==
  IF ~traced_flags.defined /\ actual_flags.defined
  THEN ERR_TRACED_UNDEFINED
  ELSE ERR_TRACED_NO_GRAD

\* every undefined input replaced by a zero tensor
TensorInput_zeros(i, traced_flags, actual_flags) ==
  IF ~actual_flags.defined THEN zeroTensorWithType(i) ELSE DataOf(i)

\* tinputs[i]: what the interpreter is given for input i
TensorInput(i, traced_flags, actual_flags) ==
  IF ~actual_flags.defined
  THEN IF traced_flags.defined THEN zeroTensorWithType(i) ELSE UndefinedTensor
  ELSE DataOf(i)

\* make_grad_fn's edges: the copied edges of the previous stage, then one
\* edge per used, grad-requiring input of this stage
RECURSIVE InputEdges(_, _, _)
InputEdges(d, inputs, i) ==
  IF i > Len(inputs) THEN <<>>
  ELSE LET rest == InputEdges(d, inputs, i + 1)
       IN IF ~d.used_inputs[i] THEN rest
          ELSE IF ~d.input_flags[i].requires_grad THEN rest
          ELSE IF ~inputs[i].defined \/ ~inputs[i].requires_grad
          THEN <<NullEdge>> \o rest
          ELSE <<EdgeOfInput(i, inputs[i])>> \o rest

\* the edges of the previous stage copied by position, not by index
CopiedEdges_by_position(node, next_details) ==
  [k \in 1..Len(next_details.copied_next_fns) |-> node.next_functions[k]]

CopiedEdges(node, next_details) ==
  [k \in 1..Len(next_details.copied_next_fns) |->
     node.next_functions[next_details.copied_next_fns[k] + 1]]

\* a make_grad_fn that numbers the new node two stages on
make_grad_fn_skipping(node, details, inputs, interp) ==
  [NullFn EXCEPT !.exists = TRUE, !.stage_ = node.stage_ + 2,
                 !.keep_graph_ = node.keep_graph_, !.interp_ = interp]

\* make_grad_fn: the node of the next stage, run on the interpreter state
\* `interp`; without a next stage it is returned with no edges.  One backward
\* mode holds for a whole graph, so the new node keeps the mode of its maker.
make_grad_fn(node, details, inputs, interp) ==
  LET grad == [NullFn EXCEPT !.exists = TRUE, !.stage_ = node.stage_ + 1,
                             !.keep_graph_ = node.keep_graph_,
                             !.interp_ = interp]
  IN IF node.stage_ + 1 = Len(details) THEN grad
     ELSE [grad EXCEPT !.next_functions =
             CopiedEdges(node, DetailsOf(details, node.stage_ + 1))
               \o InputEdges(DetailsOf(details, node.stage_), inputs, 1)]

\* used_ with every apply marking the node, keep_graph_ or not
used_always(node) == TRUE

\* used_ with no apply marking the node
used_kept(node) == node.used_

\* the count of the message with the last compiled stage counted too
nderivs_with_last(details) == Len(details)

\* the derivatives the message names: stage_details_.size() - 1
nderivs(details) == Len(details) - 1

\* no output taken to require grad
requires_no_grad(output_flags) == FALSE

\* some output's flag has requires_grad, so a grad_fn is made for the outputs
requires_grad_fn(output_flags) ==
  \E o \in 1..Len(output_flags) : output_flags[o]

\* a wrapping loop that makes a node for every output that requires grad
no_grad_fn_unchecked(have) == TRUE

\* `if (!grad_fn)`: the outputs wrapped so far made no grad_fn
no_grad_fn(have) == ~have

\* the calls of make_grad_fn in the loop that wraps outputs o, o + 1, ...;
\* `have` tells whether grad_fn is set when the loop reaches output o
RECURSIVE GradFnsMade(_, _, _)
GradFnsMade(output_flags, o, have) ==
  IF o > Len(output_flags) THEN 0
  ELSE IF ~output_flags[o] THEN GradFnsMade(output_flags, o + 1, have)
  ELSE IF no_grad_fn(have) THEN 1 + GradFnsMade(output_flags, o + 1, TRUE)
  ELSE GradFnsMade(output_flags, o + 1, have)

\* `used_ |= !keep_graph_`
used_after(node) == node.used_ \/ ~node.keep_graph_

NoOutcome ==
  [status |-> NONE, nderivs |-> -1, fn |-> NullFn, inputs |-> <<>>,
   tinputs |-> <<>>, ran |-> -1, grad_fn |-> NullFn, made |-> 0,
   result |-> <<>>]

\* InterpreterAutogradFunction::apply(inputs) on `node`: the outcome, the
\* node as it is left, and the node it built
InterpreterAutogradFunction_apply(node, inputs, details) ==
  IF node.stage_ = Len(details)
  THEN [out  |-> [NoOutcome EXCEPT !.status = ERR_NDERIVS,
                                   !.nderivs = nderivs(details),
                                   !.fn = node, !.inputs = inputs],
        node |-> [node EXCEPT !.applied = AtMostTwo(@ + 1)]]
  ELSE IF node.used_
  THEN [out  |-> [NoOutcome EXCEPT !.status = ERR_BACKWARD_TWICE,
                                   !.fn = node, !.inputs = inputs],
        node |-> [node EXCEPT !.applied = AtMostTwo(@ + 1)]]
  ELSE
    LET d      == DetailsOf(details, node.stage_)
        marked == [node EXCEPT !.used_ = used_after(node),
                               !.applied = AtMostTwo(@ + 1)]
        bad    == FirstRejected(d.input_flags, inputs)
    IN IF bad # 0
       THEN [out  |-> [NoOutcome EXCEPT
                         !.status = RejectedWith(d.input_flags[bad], inputs[bad]),
                         !.fn = node, !.inputs = inputs],
             node |-> marked]
       ELSE
         LET tinputs == [i \in 1..Len(inputs) |->
                           TensorInput(i, d.input_flags[i], inputs[i])]
             \* interp_.clone() runs apart; a copy of interp_ shares its state
             ran     == node.interp_
             after   == IF node.keep_graph_ THEN marked
                        ELSE [marked EXCEPT !.interp_ = ran + 1]
             needs   == requires_grad_fn(d.output_flags)
             grad    == IF needs
                        THEN make_grad_fn(node, details, inputs, ran + 1)
                        ELSE NullFn
             result  == [o \in 1..Len(d.output_flags) |->
                          [requires_grad |-> d.output_flags[o],
                           grad_fn |-> IF d.output_flags[o]
                                       THEN grad.stage_ ELSE -1]]
         IN [out  |-> [status |-> OK, nderivs |-> -1, fn |-> node,
                       inputs |-> inputs, tinputs |-> tinputs, ran |-> ran,
                       grad_fn |-> grad,
                       made |-> GradFnsMade(d.output_flags, 1, FALSE),
                       result |-> result],
             node |-> after]

\* the compiled programs: every stage traced with the same flags; either the
\* input flags vary in a program of MaxStages stages whose outputs all
\* require grad, or the number of stages and the output flags vary and every
\* input requires grad
StageDetails(in_flags, out_flags) ==
  [input_flags |-> in_flags, output_flags |-> out_flags,
   used_inputs |-> [i \in 1..Len(in_flags) |-> TRUE],
   copied_next_fns |-> <<>>]

Programs ==
  {[s \in 1..n |-> StageDetails(f, [o \in 1..NumOutputs |-> TRUE])]
     : n \in {MaxStages}, f \in [1..NumInputs -> VariableFlags]}
  \cup
  {[s \in 1..n |-> StageDetails([i \in 1..NumInputs |-> GradFlags], o)]
     : n \in 1..MaxStages, o \in [1..NumOutputs -> BOOLEAN]}

\* InterpreterFunctionFactory::construct() on a compiled program
InitInterp ==
  /\ stage_details \in Programs
  /\ \E kg \in BOOLEAN : this_fn = NewFn(kg)
  /\ built_fn = NullFn
  /\ out = NoOutcome
  /\ IdleGuard
  /\ IdleConv

\* this_fn.apply(inputs): the node applied last is applied again
Apply(inputs) ==
  /\ \E r \in {InterpreterAutogradFunction_apply(this_fn, inputs, stage_details)} :
        /\ out' = r.out
        /\ this_fn' = r.node
        /\ built_fn' = r.out.grad_fn
  /\ UNCHANGED <<stage_details, guardVars, convVars>>

\* built_fn.apply(inputs): a backward pass over the outputs of the last apply
ApplyGradFn(inputs) ==
  /\ built_fn.exists
  /\ \E r \in {InterpreterAutogradFunction_apply(built_fn, inputs, stage_details)} :
        /\ out' = r.out
        /\ this_fn' = r.node
        /\ built_fn' = r.out.grad_fn
  /\ UNCHANGED <<stage_details, guardVars, convVars>>

LiveInputs ==
  [1..NumInputs -> {UndefinedInput, LeafInput(FALSE), LeafInput(TRUE)}]

NextInterp ==
  \/ \E inputs \in LiveInputs : Apply(inputs)
  \/ \E inputs \in LiveInputs : ApplyGradFn(inputs)

SpecInterp == InitInterp /\ [][NextInterp]_vars

----------------------------------------------------------------------------
(* SpecEdges: make_grad_fn's edges, on two-stage programs whose first node *)
(* was given two edges by its maker                                        *)

CopiedChoices == {<<>>, <<0>>, <<1, 0>>}

\* how an input was traced: not used, used without grad, used with grad
TracedChoices ==
  {[used |-> FALSE, flags |-> GradFlags],
   [used |-> TRUE,  flags |-> NoGradFlags],
   [used |-> TRUE,  flags |-> GradFlags]}

AllGradOutputs == [o \in 1..NumOutputs |-> TRUE]

EdgePrograms ==
  {<< [input_flags |-> [i \in 1..NumInputs |-> t[i].flags],
       output_flags |-> AllGradOutputs,
       used_inputs |-> [i \in 1..NumInputs |-> t[i].used],
       copied_next_fns |-> <<>>],
      [StageDetails([i \in 1..NumInputs |-> GradFlags], AllGradOutputs)
         EXCEPT !.copied_next_fns = c] >>
     : t \in [1..NumInputs -> TracedChoices], c \in CopiedChoices}

InitEdges ==
  /\ stage_details \in EdgePrograms
  /\ \E kg \in BOOLEAN :
       this_fn = [NewFn(kg) EXCEPT
                    !.next_functions = <<ExternalEdge(1), ExternalEdge(2)>>]
  /\ built_fn = NullFn
  /\ out = NoOutcome
  /\ IdleGuard
  /\ IdleConv

EdgeInputs ==
  [1..NumInputs -> {UndefinedInput, LeafInput(FALSE), LeafInput(TRUE),
                    ProducedInput(MaxOutputNr)}]

NextEdges == \E inputs \in EdgeInputs : Apply(inputs)

SpecEdges == InitEdges /\ [][NextEdges]_vars

----------------------------------------------------------------------------
(* Properties of the staged interpreter node                               *)

Applied   == out.status # NONE
NumStages == Len(stage_details)
StageMismatch == {ERR_TRACED_UNDEFINED, ERR_TRACED_NO_GRAD}

\* the last apply got as far as validating its inputs
Validated == Applied /\ out.fn.stage_ < NumStages /\ ~out.fn.used_
TracedFlags == DetailsOf(stage_details, out.fn.stage_).input_flags
OutputFlags == DetailsOf(stage_details, out.fn.stage_).output_flags

\* live input i is one the trace of its stage does not allow
Offends(i) ==
  \/ ~TracedFlags[i].defined /\ out.inputs[i].defined
  \/ ~TracedFlags[i].requires_grad /\ out.inputs[i].requires_grad

\* the last apply left the program and the graph as they were
NothingRun ==
  /\ out.ran = -1
  /\ ~built_fn.exists
  /\ this_fn.interp_ = out.fn.interp_

\* C4: a node with keep_graph_ is never marked used, leaves its own
\* interpreter state where it was because each apply runs on a clone, and
\* never fails for having been applied before: whenever its inputs fit the
\* trace, the apply succeeds and runs the stage of the node, however many
\* applies came before.
C4_KeepGraphReplays ==
  (Applied /\ out.fn.keep_graph_) =>
     /\ ~this_fn.used_
     /\ this_fn.interp_ = this_fn.stage_
     /\ out.status # ERR_BACKWARD_TWICE
     /\ (out.fn.stage_ < NumStages /\ \A i \in 1..NumInputs : ~Offends(i))
          => (out.status = OK /\ out.ran = out.fn.stage_)

C4_Witness ==
  /\ Applied
  /\ out.fn.keep_graph_
  /\ out.fn.applied = 2
  /\ this_fn.applied = 2
  /\ out.status = OK
  /\ ~this_fn.used_

\* C5: a node without keep_graph_ at a compiled stage is used once applied,
\* and every apply after the first fails with ERR_BACKWARD_TWICE, runs no
\* stage and builds no node.
C5_SingleUse ==
  (Applied /\ ~out.fn.keep_graph_ /\ out.fn.stage_ < NumStages) =>
     /\ this_fn.used_
     /\ (out.fn.applied = 0) => ~out.fn.used_
     /\ (out.fn.applied >= 1) =>
          (out.status = ERR_BACKWARD_TWICE /\ NothingRun)

C5_Witness ==
  /\ Applied
  /\ ~out.fn.keep_graph_
  /\ out.fn.stage_ < NumStages
  /\ out.fn.applied = 2
  /\ out.status = ERR_BACKWARD_TWICE

\* C7: with n + 1 stage entries, a node of a stage 0..n that was not used and
\* whose inputs fit the trace applies with success and runs its own stage;
\* the node of stage n + 1 fails with the message that names n derivatives;
\* no node of a later stage exists.
C7_CompiledDerivatives ==
  Applied =>
     /\ out.fn.stage_ <= NumStages
     /\ (out.fn.stage_ = NumStages) =>
          (out.status = ERR_NDERIVS /\ out.nderivs = NumStages - 1 /\ NothingRun)
     /\ (Validated /\ \A i \in 1..NumInputs : ~Offends(i)) =>
          (out.status = OK /\ out.ran = out.fn.stage_)

C7_Witness ==
  /\ Applied
  /\ NumStages = MaxStages
  /\ out.fn.stage_ = NumStages
  /\ out.status = ERR_NDERIVS
  /\ out.nderivs = MaxStages - 1

\* C8: an apply at the last compiled stage s that gets as far as running
\* succeeds whether or not an output requires grad; if one does, the outputs
\* that require grad are bound to a new node of stage s + 1 with no edges.  The
\* derivative-limit error comes only from an apply of a node of that stage.
C8_LastStageDefers ==
  /\ (Validated /\ out.fn.stage_ + 1 = NumStages
        /\ \A i \in 1..NumInputs : ~Offends(i))
       => /\ out.status = OK
          /\ (\E o \in 1..NumOutputs : OutputFlags[o]) =>
               /\ built_fn.exists
               /\ built_fn.stage_ = NumStages
               /\ built_fn.next_functions = <<>>
               /\ \A o \in 1..NumOutputs :
                    OutputFlags[o] => out.result[o].grad_fn = NumStages
  /\ (Applied /\ out.status = ERR_NDERIVS) => out.fn.stage_ = NumStages

C8_Witness ==
  /\ Applied
  /\ NumStages > 1
  /\ out.fn.stage_ + 1 = NumStages
  /\ out.status = OK
  /\ built_fn.exists
  /\ built_fn.stage_ = NumStages
  /\ built_fn.next_functions = <<>>

\* C9: an apply that validates its inputs fails with a stage mismatch exactly
\* when some live input is defined where the trace had it undefined, or
\* requires grad where the trace did not; the failed apply runs no stage and
\* builds no node.  No other apply fails with a stage mismatch.
C9_StageMismatch ==
  /\ Validated =>
       /\ (out.status \in StageMismatch) <=> (\E i \in 1..NumInputs : Offends(i))
       /\ (out.status \in StageMismatch) => NothingRun
  /\ (Applied /\ out.status \in StageMismatch) => Validated

C9_Witness ==
  /\ Validated
  /\ out.status = ERR_TRACED_NO_GRAD
  /\ ~Offends(1)
  /\ Offends(2)
  /\ out.fn.stage_ > 0
  /\ NothingRun

\* C10: no undefined live input makes an apply fail, for a rejected apply has
\* a defined input that offends; a successful apply hands the interpreter a
\* zero tensor for an undefined input traced as defined, an undefined tensor
\* for one traced as undefined, and its own data for a defined input.
C10_UndefinedInputs ==
  Validated =>
     /\ (\A i \in 1..NumInputs : ~out.inputs[i].defined) => out.status = OK
     /\ (out.status # OK) =>
          \E i \in 1..NumInputs : out.inputs[i].defined /\ Offends(i)
     /\ (out.status = OK) =>
          \A i \in 1..NumInputs :
            out.tinputs[i] =
              IF out.inputs[i].defined THEN DataOf(i)
              ELSE IF TracedFlags[i].defined THEN zeroTensorWithType(i)
              ELSE UndefinedTensor

C10_Witness ==
  /\ Validated
  /\ out.status = OK
  /\ \E i, j \in 1..NumInputs :
       /\ ~out.inputs[i].defined /\ TracedFlags[i].defined
       /\ out.tinputs[i] = zeroTensorWithType(i)
       /\ ~out.inputs[j].defined /\ ~TracedFlags[j].defined
       /\ out.tinputs[j] = UndefinedTensor

\* C11: a successful apply at stage s makes a node exactly when some output
\* flag of the stage requires grad; then make_grad_fn ran once, the node is of
\* stage s + 1 and produces every output whose flag requires grad, and every
\* other output is returned with requires_grad false and no producer; when no
\* flag requires grad no node is made.
C11_LazyGradFn ==
  (Applied /\ out.status = OK) =>
     /\ built_fn.exists <=> \E o \in 1..NumOutputs : OutputFlags[o]
     /\ out.made = IF built_fn.exists THEN 1 ELSE 0
     /\ built_fn.exists => built_fn.stage_ = out.fn.stage_ + 1
     /\ \A o \in 1..NumOutputs :
          /\ out.result[o].requires_grad = OutputFlags[o]
          /\ out.result[o].grad_fn =
               IF OutputFlags[o] THEN out.fn.stage_ + 1 ELSE -1

C11_Witness ==
  /\ Applied
  /\ out.status = OK
  /\ \E o, q \in 1..NumOutputs : o # q /\ OutputFlags[o] /\ OutputFlags[q]
  /\ out.made = 1
  /\ built_fn.exists
  /\ built_fn.stage_ = out.fn.stage_ + 1

\* C12: the edges of the node built at stage s are the stage-s node's own
\* edges at the indices of stage s + 1's copied_next_fns, in the order of that
\* list; then one edge for each input, in index order, that is used at stage
\* s and traced as requiring grad: an empty edge if the live input is
\* undefined or does not require grad, else its grad_fn, or its grad
\* accumulator when it has none, with its output_nr.  No other input adds an
\* edge.
C12_EdgeOrder ==
  (Applied /\ out.status = OK /\ built_fn.exists
     /\ out.fn.stage_ + 1 < NumStages) =>
    LET d      == DetailsOf(stage_details, out.fn.stage_)
        copied == DetailsOf(stage_details, out.fn.stage_ + 1).copied_next_fns
        edges  == built_fn.next_functions
        adds   == {i \in 1..NumInputs :
                     d.used_inputs[i] /\ d.input_flags[i].requires_grad}
        at(i)  == Len(copied) + Cardinality({j \in adds : j <= i})
    IN /\ Len(edges) = Len(copied) + Cardinality(adds)
       /\ \A k \in 1..Len(copied) :
            edges[k] = out.fn.next_functions[copied[k] + 1]
       /\ \A i \in adds :
            LET input == out.inputs[i]
            IN IF ~input.defined \/ ~input.requires_grad
               THEN edges[at(i)] = NullEdge
               ELSE /\ edges[at(i)].of_input = i
                    /\ edges[at(i)].input_nr = input.output_nr
                    /\ edges[at(i)].function =
                         IF input.has_grad_fn THEN "grad_fn"
                         ELSE "grad_accumulator"

C12_Witness ==
  /\ Applied
  /\ out.status = OK
  /\ built_fn.exists
  /\ out.fn.stage_ + 1 < NumStages
  /\ built_fn.next_functions =
       <<ExternalEdge(2), ExternalEdge(1),
         EdgeOfInput(1, LeafInput(TRUE)),
         EdgeOfInput(2, ProducedInput(MaxOutputNr))>>


\* C34: without keep_graph_ an apply marks the node used before it validates
\* its inputs: an apply that fails with a stage mismatch leaves its node
\* used, and the next apply of that node fails with the backward-twice
\* message, whatever its inputs, and runs and builds nothing.
C34_FailedApplyConsumes ==
  /\ (Applied /\ out.status \in StageMismatch /\ ~out.fn.keep_graph_) =>
       /\ ~out.fn.used_
       /\ this_fn.used_
       /\ this_fn.stage_ = out.fn.stage_
       /\ ~built_fn.exists
  \* a node applied before whose stage never ran: its applies all failed
  /\ (Applied /\ ~out.fn.keep_graph_ /\ out.fn.stage_ < NumStages
        /\ out.fn.applied >= 1 /\ out.fn.interp_ = out.fn.stage_) =>
       /\ out.fn.used_
       /\ out.status = ERR_BACKWARD_TWICE
       /\ NothingRun

\* the second apply of a node whose first apply was rejected (its stage never
\* ran) is given inputs that fit the trace and fails
C34_Witness ==
  /\ Applied
  /\ ~out.fn.keep_graph_
  /\ out.fn.applied = 1
  /\ out.fn.used_
  /\ out.fn.interp_ = out.fn.stage_
  /\ out.fn.stage_ < NumStages
  /\ \A i \in 1..NumInputs : ~Offends(i)
  /\ \E i \in 1..NumInputs : out.inputs[i].defined
  /\ out.status = ERR_BACKWARD_TWICE

\* C35: the stage of every node lies in 0..number of stage entries, and the
\* node an apply at stage s builds has stage s + 1.  Every apply of a node
\* whose stage is the number of entries fails with the derivative-limit
\* message, never with the backward-twice message, leaves the node unused and
\* builds no node.
C35_StageBounds ==
  /\ this_fn.stage_ \in 0..NumStages
  /\ built_fn.exists => built_fn.stage_ \in 1..NumStages
  /\ Applied =>
       /\ out.fn.stage_ \in 0..NumStages
       /\ built_fn.exists => built_fn.stage_ = out.fn.stage_ + 1
       /\ (out.fn.stage_ = NumStages) =>
            /\ out.status = ERR_NDERIVS
            /\ ~out.fn.used_
            /\ ~this_fn.used_
            /\ this_fn.stage_ = NumStages
            /\ ~built_fn.exists

\* the third apply of a node past the last stage, without keep_graph_
C35_Witness ==
  /\ Applied
  /\ ~out.fn.keep_graph_
  /\ NumStages > 1
  /\ out.fn.stage_ = NumStages
  /\ out.fn.applied = 2
  /\ ~this_fn.used_
  /\ out.status = ERR_NDERIVS

----------------------------------------------------------------------------
(* Properties of the convolution's computation, under SpecKernel           *)

BackwardDone == kern.bwd.path # NONE
Gradients == <<kern.bwd.grad_input, kern.bwd.grad_weight, kern.bwd.grad_bias>>

\* the calls of the last backward computation that produce gradient i
ComputedBy(i) ==
  {c \in 1..Len(kern.bwd.calls) :
     LET call == kern.bwd.calls[c]
     IN CASE call.kernel \in {"compute_backward"} -> call.mask[i]
          [] call.kernel = "conv_depthwise2d_backward" -> i < 3 /\ call.mask[i]
          [] call.kernel \in {"cudnn_convolution_forward",
                              "cudnn_convolution_backward_data"} -> i = 1
          [] call.kernel = "cudnn_convolution_backward_filter" -> i = 2
          [] call.kernel \in {"compute_grad_bias",
                              "cudnn_convolution_backward_bias"} -> i = 3
          [] OTHER -> FALSE}

\* C18 as stated: on every backend path gradient i is computed and returned
\* defined only if bit i of the effective output mask is set.
C18_Original ==
  BackwardDone =>
    \A i \in 1..3 :
      (Gradients[i].defined \/ ComputedBy(i) # {}) => kern.bwd.output_mask[i]

\* C19: the effective bit for the bias gradient is the request for it and the
\* saved bias being defined; with an undefined bias no call computes a bias
\* gradient and output 2 is undefined, on every path and for every request.
C19_BiasMask ==
  BackwardDone =>
    /\ kern.bwd.output_mask[3] = (kern.request[3] /\ kern.p.bias.defined)
    /\ ~kern.p.bias.defined =>
         (~kern.bwd.grad_bias.defined /\ ComputedBy(3) = {})
    /\ kern.bwd.grad_bias.defined = kern.bwd.output_mask[3]

C19_Witness ==
  /\ BackwardDone
  /\ kern.bwd.path = "cudnn"
  /\ kern.request = <<TRUE, TRUE, TRUE>>
  /\ ~kern.p.bias.defined
  /\ ~kern.bwd.grad_bias.defined
  /\ kern.bwd.grad_weight.defined

ForwardDone == kern.fwd.path # NONE

\* tensor is the k-th (from 0) of g equal slices of whole along dim
IsSlice(tensor, whole, dim, g, k) ==
  LET n == whole.size[dim + 1] \div g
  IN /\ tensor.defined
     /\ tensor.name = whole.name
     /\ tensor.size[dim + 1] = n
     /\ tensor.start[dim + 1] = whole.start[dim + 1] + k * n
     /\ tensor.size[2 - dim] = whole.size[2 - dim]
     /\ tensor.start[2 - dim] = whole.start[2 - dim]

\* tensor is the concatenation along dim of the groups' results, in the
\* order of the groups
IsCatOfGroups(tensor, dim, g) ==
  /\ tensor.defined
  /\ tensor.name = "cat"
  /\ tensor.dim = dim
  /\ Len(tensor.parts) = g
  /\ \A k \in 1..g : tensor.parts[k].defined /\ tensor.parts[k].call = k - 1

\* C20: on the generic path a convolution with one group calls the kernel once
\* on the whole tensors with the buffers of group 0 and concatenates nothing;
\* with g > 1 groups it calls the kernel g times, the k-th call on the k-th
\* slice of the input (dim 1), of the weight (dim 0) and of the bias (dim 0,
\* when defined; of the output's gradient along dim 1 in the backward pass)
\* with the buffers of group k, and concatenates the results in the order of
\* the groups: output and grad_input along dim 1, grad_weight and grad_bias
\* along dim 0.
C20_GroupedCompute ==
  LET p == kern.p
      g == p.groups
  IN /\ (ForwardDone /\ kern.fwd.path \in {"single", "grouped"}) =>
          IF g = 1
          THEN /\ Len(kern.fwd.calls) = 1
               /\ kern.fwd.calls[1].tensors = <<p.input, p.weight, p.bias>>
               /\ kern.fwd.calls[1].buffers = 0
               /\ kern.fwd.output.parts = <<>>
               /\ kern.fwd.output.name # "cat"
          ELSE /\ Len(kern.fwd.calls) = g
               /\ \A k \in 1..g :
                    LET call == kern.fwd.calls[k]
                    IN /\ call.kernel = "compute_output"
                       /\ call.buffers = k - 1
                       /\ IsSlice(call.tensors[1], p.input, 1, g, k - 1)
                       /\ IsSlice(call.tensors[2], p.weight, 0, g, k - 1)
                       /\ IF p.bias.defined
                          THEN IsSlice(call.tensors[3], p.bias, 0, g, k - 1)
                          ELSE ~call.tensors[3].defined
               /\ IsCatOfGroups(kern.fwd.output, 1, g)
     /\ (BackwardDone /\ kern.bwd.path \in {"single", "grouped"}) =>
          IF g = 1
          THEN /\ Len(kern.bwd.calls) = 1
               /\ kern.bwd.calls[1].tensors = <<p.input, p.grad_output, p.weight>>
               /\ kern.bwd.calls[1].buffers = 0
               /\ \A i \in 1..3 :
                    Gradients[i].parts = <<>> /\ Gradients[i].name # "cat"
          ELSE /\ Len(kern.bwd.calls) = g
               /\ \A k \in 1..g :
                    LET call == kern.bwd.calls[k]
                    IN /\ call.kernel = "compute_backward"
                       /\ call.buffers = k - 1
                       /\ IsSlice(call.tensors[1], p.input, 1, g, k - 1)
                       /\ IsSlice(call.tensors[2], p.grad_output, 1, g, k - 1)
                       /\ IsSlice(call.tensors[3], p.weight, 0, g, k - 1)
               /\ kern.bwd.output_mask[1] =>
                    IsCatOfGroups(kern.bwd.grad_input, 1, g)
               /\ kern.bwd.output_mask[2] =>
                    IsCatOfGroups(kern.bwd.grad_weight, 0, g)
               /\ kern.bwd.output_mask[3] =>
                    IsCatOfGroups(kern.bwd.grad_bias, 0, g)

C20_Witness ==
  /\ BackwardDone
  /\ kern.bwd.path = "grouped"
  /\ kern.p.groups > 2
  /\ kern.p.bias.defined
  /\ kern.request = <<TRUE, TRUE, TRUE>>
  /\ kern.bwd.grad_bias.name = "cat"
  /\ kern.fwd.output.name = "cat"
  /\ kern.fwd.calls[2].tensors[1].start[2] > 0

\* What the numeric library's convolution computes from its tensors, channel by
\* channel of the output: the row of the weight, the input channels the row's
\* taps read, and the bias element added.  With G groups the rows of group k
\* read the k-th C / G input channels.
LibConv(input, weight, bias, G) ==
  LET rows == weight.size[1] \div G
      taps == input.size[2] \div G
  IN [i \in 1..weight.size[1] |->
        [row  |-> weight.start[1] + i - 1,
         taps |-> [j \in 1..weight.size[2] |->
                     <<weight.start[2] + j - 1,
                       IF j <= taps
                       THEN input.start[2] + ((i - 1) \div rows) * taps + j - 1
                       ELSE -1>>],
         bias |-> IF bias.defined THEN bias.start[1] + i - 1 ELSE -1]]

RECURSIVE Flatten(_)
Flatten(seqs) ==
  IF Len(seqs) = 0 THEN <<>> ELSE Head(seqs) \o Flatten(Tail(seqs))

\* the channels of the output a forward computation returned
ForwardValue(p, fwd) ==
  LET of(call, G) == LibConv(call.tensors[1], call.tensors[2], call.tensors[3], G)
  IN IF fwd.path \in {"depthwise", "cudnn"} THEN of(fwd.calls[1], p.groups)
     ELSE IF fwd.output.name # "cat" THEN of(fwd.calls[fwd.output.call + 1], 1)
     ELSE IF fwd.output.dim # 1 THEN <<>>
     ELSE Flatten([k \in 1..Len(fwd.output.parts) |->
                     of(fwd.calls[fwd.output.parts[k].call + 1], 1)])

\* Tensor::narrow(dim, start, length)
narrow(tensor, dim, start, length) ==
  IF ~tensor.defined THEN NoTensor
  ELSE [tensor EXCEPT !.size[dim + 1] = length, !.start[dim + 1] = @ + start]

\* the convolution of group k done by hand: a convolution with groups = 1 on
\* the group's input channels, weight rows and bias elements
ByHand(p, k) ==
  LET c == p.input.size[2] \div p.groups
      r == p.weight.size[1] \div p.groups
      q == [p EXCEPT !.groups = 1,
                     !.input  = narrow(p.input, 1, k * c, c),
                     !.weight = narrow(p.weight, 0, k * r, r),
                     !.bias   = narrow(p.bias, 0, k * r, r)]
  IN ForwardValue(q, ConvForward_compute(q))

\* C21: the output of a convolution with g > 1 groups is, channel for channel,
\* the concatenation in group order of the outputs of g convolutions with one
\* group, the k-th on the k-th slice of the input channels and of the weight.
C21_GroupedEqualsByHand ==
  (ForwardDone /\ kern.p.groups > 1) =>
    ForwardValue(kern.p, kern.fwd)
      = Flatten([k \in 1..kern.p.groups |-> ByHand(kern.p, k - 1)])

\* input (1, 4, ..), weight (4, 2, ..), groups = 2 on the generic path
C21_Witness ==
  /\ ForwardDone
  /\ kern.fwd.path = "grouped"
  /\ kern.p.groups = 2
  /\ kern.p.input.size = <<1, 4>>
  /\ kern.p.weight.size = <<4, 2>>
  /\ Len(ForwardValue(kern.p, kern.fwd)) = 4
  /\ ForwardValue(kern.p, kern.fwd)[3].taps = <<<<0, 2>>, <<1, 3>>>>

----------------------------------------------------------------------------
(* SpecEngine: one backward pass after another over a graph of nodes.  The *)
(* engine follows section 4.4 and section 5 of the design: dependency      *)
(* counts, a ready queue, accumulation buffers, workers that run ready     *)
(* nodes side by side.                                                     *)

MaxWorkers == 2   \* nodes that execute at the same time

\* a node built by the forward pass, and the node that n's backward constructs
Fn(n)  == [n |-> n, order |-> 0]
DD(id) == [id EXCEPT !.order = @ + 1]
NullTarget == [n |-> 0, order |-> 0]   \* an empty edge

SeedGradient == 1

\* the graphs, as next_functions of nodes 1..: a chain next to a leaf, a
\* diamond, an operation that reads one value twice, an edge that skips a
\* node next to an empty edge, and three siblings that feed one node
GraphShapes ==
  { <<<<2, 4>>, <<3>>, <<>>, <<>>>>,
    <<<<2, 3>>, <<4>>, <<4>>, <<>>>>,
    <<<<2, 2>>, <<3>>, <<>>>>,
    <<<<2, 0, 3>>, <<3>>, <<>>>>,
    <<<<2, 3, 4>>, <<5>>, <<5>>, <<5>>, <<>>>> }

GraphOf(shape, nonexec) ==
  LET ids == {Fn(n) : n \in 1..Len(shape)}
  IN [nodes      |-> ids,
      edges      |-> [id \in ids |->
                        [k \in 1..Len(shape[id.n]) |->
                           IF shape[id.n][k] = 0 THEN NullTarget
                           ELSE Fn(shape[id.n][k])]],
      executable |-> [id \in ids |-> id.n \notin nonexec],
      born       |-> [id \in ids |-> 0]]

\* is_executable of a node: a node that is not executable takes no part
should_run_always(g, id) == id \in g.nodes

should_run(g, id) == id \in g.nodes /\ g.executable[id]

\* the edges of node m that lead to node t
EdgesInto(g, m, t) == {k \in 1..Len(g.edges[m]) : g.edges[m][k] = t}

\* the nodes a pass from root runs: root and what its edges lead to through
\* nodes that run
RECURSIVE Reach(_, _)
Reach(g, S) ==
  LET T == S \cup {t \in g.nodes :
                     should_run(g, t) /\ \E m \in S : EdgesInto(g, m, t) # {}}
  IN IF T = S THEN S ELSE Reach(g, T)

Tasks(g, root) == IF should_run(g, root) THEN Reach(g, {root}) ELSE {}

RECURSIVE SumSet(_, _)
SumSet(f, S) ==
  IF S = {} THEN 0
  ELSE LET x == CHOOSE y \in S : TRUE IN f[x] + SumSet(f, S \ {x})

\* a count that takes a producer once however many of its edges lead here
dependencies_per_node(g, tasks, t) ==
  Cardinality({m \in tasks : EdgesInto(g, m, t) # {}})

\* a count that also waits for the nodes that never run
dependencies_all(g, tasks, t) ==
  SumSet([m \in g.nodes |-> Cardinality(EdgesInto(g, m, t))], g.nodes)

\* the pending-dependency count of t: the edges into t of the nodes that run
dependencies(g, tasks, t) ==
  SumSet([m \in tasks |-> Cardinality(EdgesInto(g, m, t))], tasks)

\* a buffer that keeps the contribution that came last
accumulate_last(buffer, gradient) == gradient

\* adding a contribution into an accumulation buffer
accumulate(buffer, gradient) == buffer + gradient

\* the gradient a node's apply returns for its k-th input, from the gradient
\* g it was given: an addition hands g on, and the model tells the inputs
\* apart by adding k
GradFor(id, k, g) == g + k

\* a node constructed while a pass runs joins that pass
JoinsPass_always(d) == TRUE

\* a node constructed while a pass runs forms a new graph
JoinsPass(d) == FALSE

\* the pass gives up at the first failure
aborted_never(r) == FALSE

aborted(r) == r.error # NONE

RECURSIVE InOrder(_)
InOrder(S) ==
  IF S = {} THEN <<>>
  ELSE LET x == CHOOSE y \in S : \A z \in S : y.n <= z.n
       IN <<x>> \o InOrder(S \ {x})

\* the graph after id's apply constructed its double-backward node: the new
\* node's edges lead to the producers of the gradient id was given and to
\* id's own next_functions; no edge leads to the new node
Construct(g, r, id) ==
  LET d == DD(id)
      given == InOrder({DD(m) : m \in r.from[id]} \cap g.nodes)
  IN [nodes      |-> g.nodes \cup {d},
      edges      |-> [x \in g.nodes \cup {d} |->
                        IF x = d THEN given \o g.edges[id] ELSE g.edges[x]],
      executable |-> [x \in g.nodes \cup {d} |->
                        IF x = d THEN TRUE ELSE g.executable[x]],
      born       |-> [x \in g.nodes \cup {d} |->
                        IF x = d THEN r.n ELSE g.born[x]]]

NoRun ==
  [n |-> 0, phase |-> "idle", root |-> NullTarget, create |-> FALSE,
   tasks |-> {}, state |-> <<>>, deps |-> <<>>, buffer |-> <<>>,
   received |-> <<>>, from |-> <<>>, arrivals |-> <<>>, outs |-> <<>>, todo |-> <<>>,
   execs |-> <<>>, trail |-> <<>>, ready |-> {}, error |-> NONE,
   failed |-> NullTarget]

Executing(r) == {id \in DOMAIN r.state : r.state[id] = "Executing"}

IdleRest == /\ IdleMore
            /\ creations = <<>>
            /\ tracing = <<>>
            /\ vblock = <<>>

InitEngine ==
  /\ \E shape \in GraphShapes : \E nonexec \in SUBSET (2..Len(shape)) :
       /\ Cardinality(nonexec) <= 1
       /\ graph = GraphOf(shape, nonexec)
  /\ run = NoRun
  /\ IdleRest
  /\ cv = <<>>
  /\ engine = <<>>
  /\ kern = <<>>
  /\ IdleGuard
  /\ IdleInterp

others == <<cv, engine, kern, creations, tracing, vblock, moreVars, guardVars, interpVars>>

\* the caller issues a backward pass from root: the engine computes the
\* dependency counts of the nodes the pass will run.  The first pass is
\* pass 1 and may construct nodes; every later pass counts as pass 2.
StartPass(root, create) ==
  /\ run.phase \in {"idle", "finished"}
  /\ root \in graph.nodes
  /\ should_run(graph, root)
  /\ root = Fn(1) \/ root.order > 0
  /\ create => run.n = 0
  /\ LET tasks == Tasks(graph, root)
     IN run' = [n |-> IF run.n = 0 THEN 1 ELSE 2,
                phase |-> "computed", root |-> root,
                create |-> create, tasks |-> tasks,
                state |-> [id \in graph.nodes |->
                             IF id \in tasks THEN "Pending" ELSE "None"],
                deps |-> [id \in graph.nodes |-> dependencies(graph, tasks, id)],
                buffer |-> [id \in graph.nodes |-> 0],
                received |-> [id \in graph.nodes |-> 0],
                from |-> [id \in graph.nodes |-> {}],
                arrivals |-> [id \in graph.nodes |-> <<>>],
                outs |-> [id \in graph.nodes |-> <<>>],
                todo |-> [id \in graph.nodes |-> 0],
                execs |-> [id \in graph.nodes |-> 0],
                trail |-> [id \in graph.nodes |->
                             IF id \in tasks THEN <<"Pending">> ELSE <<>>],
                ready |-> {}, error |-> NONE, failed |-> NullTarget]
  /\ UNCHANGED <<graph, others>>

\* the root's buffer is seeded and the root is put on the ready queue
Seed ==
  /\ run.phase = "computed"
  /\ run' = [run EXCEPT !.phase = "running",
                        !.buffer[run.root] = SeedGradient,
                        !.state[run.root] = "Ready",
                        !.trail[run.root] = Append(@, "Ready"),
                        !.ready = {run.root}]
  /\ UNCHANGED <<graph, others>>

\* a worker pops a ready node and hands it its buffer
Dispatch(id) ==
  /\ run.phase = "running"
  /\ ~aborted(run)
  /\ id \in run.ready
  /\ Cardinality(Executing(run)) < MaxWorkers
  /\ run' = [run EXCEPT !.ready = @ \ {id},
                        !.arrivals[id] = <<>>,
                        !.state[id] = "Executing",
                        !.trail[id] = Append(@, "Executing")]
  /\ UNCHANGED <<graph, others>>

\* the node's apply returns the gradients for its inputs; with create_graph
\* it has constructed the node that differentiates them
RunApply(id) ==
  /\ run.phase = "running"
  /\ ~aborted(run)
  /\ run.state[id] = "Executing"
  /\ run.todo[id] = 0
  /\ LET g2 == IF run.create /\ DD(id) \notin graph.nodes
               THEN Construct(graph, run, id) ELSE graph
         new == g2.nodes \ graph.nodes
         ext(f, v) == [x \in g2.nodes |-> IF x \in graph.nodes THEN f[x] ELSE v]
         joins == {d \in new : JoinsPass(d)}
         r1 == [run EXCEPT
                  !.state = ext(run.state, "None"),
                  !.deps = ext(run.deps, 0),
                  !.buffer = ext(run.buffer, 0),
                  !.received = ext(run.received, 0),
                  !.from = ext(run.from, {}),
                  !.arrivals = ext(run.arrivals, <<>>),
                  !.outs = ext(run.outs, <<>>),
                  !.todo = ext(run.todo, 0),
                  !.execs = ext(run.execs, 0),
                  !.trail = ext(run.trail, <<>>)]
     IN /\ graph' = g2
        /\ run' = [r1 EXCEPT
                     !.execs[id] = @ + 1,
                     !.todo[id] = 1,
                     !.outs[id] = [k \in 1..Len(graph.edges[id]) |->
                                     GradFor(id, k, run.buffer[id])],
                     !.ready = @ \cup joins,
                     !.state = [x \in g2.nodes |->
                                  IF x \in joins THEN "Ready" ELSE r1.state[x]]]
  /\ UNCHANGED others

\* the node's apply fails: the error is the outcome of the backward call
ApplyThrows(id) ==
  /\ run.phase = "running"
  /\ ~aborted(run)
  /\ run.state[id] = "Executing"
  /\ run.todo[id] = 0
  /\ run' = [run EXCEPT !.execs[id] = @ + 1,
                        !.state[id] = "Failed",
                        !.trail[id] = Append(@, "Failed"),
                        !.error = "apply failed",
                        !.failed = id]
  /\ UNCHANGED <<graph, others>>

\* the next gradient of an executing node goes into the buffer of the edge's
\* target, whose count goes down; at zero the target is put on the queue
Deliver(id) ==
  /\ run.phase = "running"
  /\ ~aborted(run)
  /\ run.state[id] = "Executing"
  /\ run.todo[id] \in 1..Len(graph.edges[id])
  /\ LET k == run.todo[id]
         t == graph.edges[id][k]
     IN IF ~should_run(graph, t)
        THEN run' = [run EXCEPT !.todo[id] = k + 1]
        ELSE LET left == run.deps[t] - 1
             IN run' = [run EXCEPT
                          !.todo[id] = k + 1,
                          !.buffer[t] = accumulate(@, run.outs[id][k]),
                          !.received[t] = @ + 1,
                          !.from[t] = @ \cup {id},
                          !.arrivals[t] = Append(@, id.n),
                          !.deps[t] = left,
                          !.state[t] = IF left = 0 THEN "Ready" ELSE @,
                          !.trail[t] = IF left = 0 THEN Append(@, "Ready") ELSE @,
                          !.ready = IF left = 0 THEN @ \cup {t} ELSE @]
  /\ UNCHANGED <<graph, others>>

\* every gradient of the node is delivered
Complete(id) ==
  /\ run.phase = "running"
  /\ ~aborted(run)
  /\ run.state[id] = "Executing"
  /\ run.todo[id] = Len(graph.edges[id]) + 1
  /\ run' = [run EXCEPT !.state[id] = "Done",
                        !.trail[id] = Append(@, "Done")]
  /\ UNCHANGED <<graph, others>>

\* the queue is empty and no worker is busy: the backward call returns
Return ==
  /\ run.phase = "running"
  /\ ~aborted(run)
  /\ run.ready = {}
  /\ Executing(run) = {}
  /\ run' = [run EXCEPT !.phase = "finished"]
  /\ UNCHANGED <<graph, others>>

\* the backward call raises the error of the node that failed
Raise ==
  /\ run.phase = "running"
  /\ aborted(run)
  /\ run' = [run EXCEPT !.phase = "aborted"]
  /\ UNCHANGED <<graph, others>>

Roots == {Fn(1)} \cup {d \in graph.nodes : d.order > 0}

NextEngine ==
  \/ \E root \in Roots : \E create \in BOOLEAN : StartPass(root, create)
  \/ Seed
  \/ \E id \in graph.nodes : Dispatch(id)
  \/ \E id \in graph.nodes : RunApply(id)
  \/ \E id \in graph.nodes : ApplyThrows(id)
  \/ \E id \in graph.nodes : Deliver(id)
  \/ \E id \in graph.nodes : Complete(id)
  \/ Return
  \/ Raise

\* what the engine and its workers do once a pass was issued and while no
\* apply fails
PassStep ==
  \/ Seed
  \/ \E id \in graph.nodes : Dispatch(id) \/ RunApply(id) \/ Deliver(id) \/ Complete(id)
  \/ Return
  \/ Raise

SpecEngine == InitEngine /\ [][NextEngine]_vars

\* the workers keep going: a pass that can take a step takes one
SpecEngineFair == SpecEngine /\ WF_vars(PassStep)

----------------------------------------------------------------------------
(* Properties of the backward engine                                        *)

PassIssued == run.phase # "idle"
Reached(id) == run.state[id] \in {"Ready", "Executing", "Done", "Failed"}

\* the edges (m, k) that lead to id from the nodes the pass runs
Contributions(id) ==
  UNION {{<<m, k>> : k \in EdgesInto(graph, m, id)} : m \in run.tasks}

\* C22: a node is Ready, or further, only once its pending-dependency count is
\* zero and every edge into it from a node of the pass has delivered its
\* gradient into the node's buffer, which then holds their sum; the root holds
\* the seed.  This holds in every state of every interleaving of the workers.
C22_ReadyWhenComplete ==
  PassIssued =>
    \A id \in graph.nodes :
      Reached(id) =>
        /\ run.deps[id] = 0
        /\ \A c \in Contributions(id) : run.todo[c[1]] > c[2]
        /\ run.received[id] = Cardinality(Contributions(id))
        /\ run.buffer[id] =
             (IF id = run.root THEN SeedGradient ELSE 0)
             + SumSet([c \in Contributions(id) |-> run.outs[c[1]][c[2]]],
                      Contributions(id))

\* a node took the gradients of three producers, and another took two
\* gradients of one producer
C22_Witness ==
  /\ PassIssued
  /\ \E id \in graph.nodes :
       /\ run.state[id] = "Ready"
       /\ id # run.root
       /\ \/ run.received[id] = 3 /\ Cardinality(run.from[id]) = 3
          \/ run.received[id] = 2 /\ Cardinality(run.from[id]) = 1

\* the nodes a pass from the root runs, by the length of the way to them
RECURSIVE LiveWithin(_, _)
LiveWithin(near, steps) ==
  LET next == near \cup {t \in graph.nodes \ near :
                           /\ graph.executable[t]
                           /\ \E m \in near : \E k \in 1..Len(graph.edges[m]) :
                                graph.edges[m][k] = t}
  IN IF steps = 0 \/ next = near THEN near ELSE LiveWithin(next, steps - 1)

Live ==
  LiveWithin({id \in {run.root} : id \in graph.nodes /\ graph.executable[id]},
             Cardinality(graph.nodes))

\* the gradient of a node of the pass, from the graph alone
RECURSIVE ExpectedIn(_, _)
ExpectedIn(live, id) ==
  LET into == UNION {{<<m, k>> : k \in EdgesInto(graph, m, id)} : m \in live}
  IN (IF id = run.root THEN SeedGradient ELSE 0)
     + SumSet([c \in into |-> GradFor(c[1], c[2], ExpectedIn(live, c[1]))], into)

Expected(id) == ExpectedIn(Live, id)

\* C23: the gradient accumulated for a node does not depend on the order in
\* which its producers ran and delivered: once the node is Ready its buffer
\* holds the sum the graph alone determines, whatever the order of arrival.
C23_OrderIndependent ==
  PassIssued =>
    LET live == Live
    IN \A id \in graph.nodes :
         Reached(id) => run.buffer[id] = ExpectedIn(live, id)

\* three siblings delivered to one node, the last of them first
C23_Witness ==
  /\ PassIssued
  /\ \E id \in graph.nodes :
       /\ run.state[id] = "Ready"
       /\ run.arrivals[id] = <<4, 3, 2>>
       /\ run.buffer[id] = Expected(id)

\* C24: a pass in which no apply fails comes to an end, with an empty ready
\* queue, and then every executable node that the root reaches through
\* executable nodes is Done, was executed once, and went from Pending to
\* Ready to Executing to Done.
C24_Terminates ==
  /\ [](run.phase = "finished" =>
          /\ run.ready = {}
          /\ \A id \in run.tasks \cup Live :
               /\ run.state[id] = "Done"
               /\ run.execs[id] = 1
               /\ run.trail[id] = <<"Pending", "Ready", "Executing", "Done">>)
  /\ (run.phase \in {"computed", "running"}
        ~> run.phase \in {"finished", "aborted"})

C24_Witness ==
  /\ run.phase = "finished"
  /\ Cardinality(Live) = 5
  /\ \A id \in Live : run.state[id] = "Done"

\* C25: a node that is not executable is never executed and hands no gradient
\* on; a node the root reaches only through such nodes is never executed and
\* receives no contribution.
C25_PrunedSubgraph ==
  PassIssued =>
    LET live == Live
    IN \A id \in graph.nodes :
         /\ ~graph.executable[id] =>
              /\ run.execs[id] = 0
              /\ ~Reached(id)
              /\ \A t \in graph.nodes : id \notin run.from[t]
         /\ id \notin live =>
              /\ run.execs[id] = 0
              /\ ~Reached(id)
              /\ run.received[id] = 0

\* the pass is over and an executable node behind a pruned one was left alone
C25_Witness ==
  /\ run.phase = "finished"
  /\ \E id \in graph.nodes \ Live :
       /\ graph.executable[id]
       /\ \E m \in graph.nodes :
            ~graph.executable[m] /\ EdgesInto(graph, m, id) # {}
       /\ run.state[id] = "None"
  /\ \E id \in Live : id # run.root /\ run.state[id] = "Done"

\* C26: a node constructed while a pass runs is not executed by that pass; it
\* is executed only by a later pass whose root is a constructed node that
\* reaches it.
C26_NewNodesWait ==
  PassIssued =>
    LET live == Live
    IN \A d \in graph.nodes :
         d.order > 0 =>
           /\ graph.born[d] = run.n =>
                (run.execs[d] = 0 /\ run.state[d] = "None")
           /\ run.execs[d] > 0 =>
                (run.n > graph.born[d] /\ run.root.order > 0 /\ d \in live)

\* a second pass, from a constructed node, has executed another one
C26_Witness ==
  /\ run.n = 2
  /\ \E d \in graph.nodes :
       /\ d.order > 0
       /\ d # run.root
       /\ graph.born[d] = 1
       /\ run.state[d] = "Done"

\* C27: once an apply has failed, the pass does nothing but hand the error to
\* the caller of backward: no node is executed, started or retried, and no
\* gradient is delivered; the call ends with the error of the failed node.
C27_FailureAborts ==
  /\ [](run.phase = "aborted" =>
          /\ run.error # NONE
          /\ run.state[run.failed] = "Failed"
          /\ run.execs[run.failed] = 1)
  /\ [][run.error # NONE =>
          /\ run'.phase = "aborted"
          /\ run'.n = run.n
          /\ run'.error = run.error
          /\ run'.execs = run.execs
          /\ run'.state = run.state
          /\ run'.buffer = run.buffer]_vars

\* the call ended with the error while a node was ready and another in flight
C27_Witness ==
  /\ run.phase = "aborted"
  /\ run.ready # {}
  /\ Executing(run) # {}

----------------------------------------------------------------------------
(* SpecVersion: threads that mutate a value in place while another thread  *)
(* saves it for backward.  The version block is shared by the value and    *)
(* its guards; its counter is the atomic integer of the design, section 5. *)

NumMutators == 2   \* threads that run in-place operations

Mutators == 1..NumMutators

\* an increment that writes back what the thread read when its operation began
fetch_add_torn(current, loaded) == loaded + 1

\* the atomic increment: one step on the counter's current value
fetch_add(current, loaded) == current + 1

NoVersionGuard == [stage |-> NONE, expected_version |-> -1, version |-> NoCounter]

\* the version block as is_modified reads it
BlockOf(v) == [c \in {TheCounter} |-> v.version]

InitVersion ==
  /\ vblock = [version |-> 0,
               pc      |-> [t \in Mutators |-> "idle"],
               loaded  |-> [t \in Mutators |-> 0],
               done    |-> [t \in Mutators |-> 0],
               begun   |-> 0,
               guard   |-> NoVersionGuard,
               after   |-> 0,
               seen    |-> [unpacked |-> FALSE, modified |-> FALSE, after |-> 0]]
  /\ graph = <<>>
  /\ run = <<>>
  /\ creations = <<>>
  /\ tracing = <<>>
  /\ IdleMore
  /\ cv = <<>>
  /\ engine = <<>>
  /\ kern = <<>>
  /\ IdleGuard
  /\ IdleInterp

notVersion == <<cv, engine, kern, graph, run, creations, tracing, moreVars, guardVars, interpVars>>

\* thread t starts an in-place operation on the value's data
BeginInPlace(t) ==
  /\ vblock.pc[t] = "idle"
  /\ vblock.begun < MaxVersion
  /\ vblock' = [vblock EXCEPT !.pc[t] = "mutating",
                              !.loaded[t] = vblock.version,
                              !.begun = @ + 1]
  /\ UNCHANGED notVersion

\* the operation of thread t increments the version
BumpVersion(t) ==
  /\ vblock.pc[t] = "mutating"
  /\ vblock' = [vblock EXCEPT
                  !.pc[t] = "idle",
                  !.version = fetch_add(vblock.version, vblock.loaded[t]),
                  !.done[t] = @ + 1,
                  !.after = IF vblock.guard.stage = "saved" THEN @ + 1 ELSE @]
  /\ UNCHANGED notVersion

\* SavedVariable's constructor: expected_version = variable.current_version()
ReadExpected ==
  /\ vblock.guard.stage = NONE
  /\ vblock' = [vblock EXCEPT !.guard.stage = "read",
                              !.guard.expected_version = vblock.version]
  /\ UNCHANGED notVersion

\* SavedVariable's constructor: version = version_counter.save()
SaveVersion ==
  /\ vblock.guard.stage = "read"
  /\ vblock' = [vblock EXCEPT !.guard.stage = "saved",
                              !.guard.version = TheCounter]
  /\ UNCHANGED notVersion

\* unpack's test: version.is_modified()
CheckVersion ==
  /\ vblock.guard.stage = "saved"
  /\ vblock' = [vblock EXCEPT
                  !.seen = [unpacked |-> TRUE,
                            modified |-> is_modified(vblock.guard, BlockOf(vblock)),
                            after    |-> vblock.after]]
  /\ UNCHANGED notVersion

NextVersion ==
  \/ \E t \in Mutators : BeginInPlace(t)
  \/ \E t \in Mutators : BumpVersion(t)
  \/ ReadExpected
  \/ SaveVersion
  \/ CheckVersion

SpecVersion == InitVersion /\ [][NextVersion]_vars

\* C28: the version is the number of in-place operations that have
\* incremented it, whichever threads ran them and however they interleaved
\* with each other and with the capture of a guard; a step never lowers it
\* and raises it by at most one; an unpack after an operation that followed
\* the capture finds the guard's version modified.
C28_NoLostIncrement ==
  /\ [](/\ vblock.version = SumSet(vblock.done, Mutators)
        /\ vblock.seen.unpacked /\ vblock.seen.after > 0 => vblock.seen.modified)
  /\ [][vblock'.version \in {vblock.version, vblock.version + 1}]_vars

\* two operations that overlapped, one of them begun before the capture, and
\* an unpack after both
C28_Witness ==
  /\ vblock.version = 2
  /\ vblock.done = [t \in Mutators |-> IF t <= 2 THEN 1 ELSE 0]
  /\ vblock.loaded = [t \in Mutators |-> 0]
  /\ vblock.guard.expected_version = 0
  /\ vblock.seen.unpacked
  /\ vblock.seen.after = 2
  /\ vblock.seen.modified

----------------------------------------------------------------------------
(* SpecCounter: threads construct nodes; each node takes its sequence       *)
(* number from Function::function_counter, which is thread_local            *)

NumThreads == 2   \* threads that construct nodes, or trace applies
MaxCreated == 6   \* nodes constructed in one run

Threads == 1..NumThreads

InitCounter ==
  /\ creations = [function_counter |-> [t \in Threads |-> 0], nodes |-> <<>>]
  /\ graph = <<>>
  /\ run = <<>>
  /\ tracing = <<>>
  /\ vblock = <<>>
  /\ IdleMore
  /\ cv = <<>>
  /\ engine = <<>>
  /\ kern = <<>>
  /\ IdleGuard
  /\ IdleInterp

\* thread t constructs a node: the node takes function_counter++ of its thread
CreateNode(t) ==
  /\ Len(creations.nodes) < MaxCreated
  /\ creations' =
       [function_counter |->
          [creations.function_counter EXCEPT ![t] = @ + 1],
        nodes |-> Append(creations.nodes,
                         [thread |-> t, time |-> creations.function_counter[t]])]
  /\ UNCHANGED <<cv, engine, kern, graph, run, tracing, vblock, moreVars, guardVars, interpVars>>

NextCounter == \E t \in Threads : CreateNode(t)

SpecCounter == InitCounter /\ [][NextCounter]_vars

\* C29 as stated: of any two nodes the one constructed later has the larger
\* sequence number, so no two nodes share one, whichever threads made them.
C29_Original ==
  \A i, j \in 1..Len(creations.nodes) :
    i < j => creations.nodes[i].time < creations.nodes[j].time

----------------------------------------------------------------------------
(* SpecTrace: Function::tracedApply on a function and its inputs while a   *)
(* trace is recorded                                                       *)

ERR_SAVED_VARIABLES == "saved_variables() needed but not implemented in"

TraceOfInput(i) == [kind |-> "value trace of input", index |-> i]
Select(i)       == [kind |-> "select", index |-> i]
ForwardCtx      == [kind |-> "forward_ctx_select", index |-> 0]
CtxSelect       == [kind |-> "ctx_select", index |-> 0]
NoTrace         == [kind |-> NONE, index |-> 0]

\* graph->createCppOp(getSharedPtr(), var_flags)
CppOp == [op |-> "CppOp", inputs |-> <<>>, outputs |-> <<>>]

\* a test that always looks for saved variables
in_eval_subgraph_ignored(fn) == FALSE

\* should_trace_backward, as the code names tracing_state->in_eval_subgraph
in_eval_subgraph(fn) == fn.in_eval_subgraph

\* has_backwards_eval
has_backwards_eval(fn) == ~in_eval_subgraph(fn) \/ fn.is_eval

\* Function::tracedApply(inputs) on trace graph g, for a function whose apply
\* returns outputs with the given defined flags
tracedApply(fn, num_inputs, outputs, g) ==
  IF fn.is_traceable
  THEN [status |-> OK, graph |-> g,
        value_trace |-> [o \in 1..Len(outputs) |-> NoTrace]]
  ELSE LET created  == [CppOp EXCEPT
                          !.inputs = [i \in 1..num_inputs |-> TraceOfInput(i)]]
           selected == [created EXCEPT
                          !.outputs = [o \in 1..Len(outputs) |-> Select(o)]]
           traces   == [o \in 1..Len(outputs) |->
                          IF outputs[o] THEN Select(o) ELSE NoTrace]
           evald    == IF ~fn.passes_state_transparently /\ fn.is_eval
                       THEN [selected EXCEPT !.inputs = Append(@, ForwardCtx)]
                       ELSE selected
           throws   == /\ ~fn.passes_state_transparently
                       /\ ~in_eval_subgraph(fn)
                       /\ ~fn.has_saved_variables
           edged    == IF /\ ~fn.passes_state_transparently
                          /\ ~throws
                          /\ has_backwards_eval(fn)
                       THEN [evald EXCEPT !.outputs = Append(@, CtxSelect)]
                       ELSE evald
       IN [status |-> IF throws THEN ERR_SAVED_VARIABLES ELSE OK,
           graph |-> Append(g, edged),
           value_trace |-> traces]

FunctionChoices ==
  [is_traceable : BOOLEAN, passes_state_transparently : BOOLEAN,
   is_eval : BOOLEAN, in_eval_subgraph : BOOLEAN, has_saved_variables : BOOLEAN]

OutputChoices == UNION {[1..m -> BOOLEAN] : m \in 0..NumOutputs}

InitTrace ==
  /\ \E fn \in FunctionChoices : \E n \in 0..NumInputs :
     \E outputs \in OutputChoices : \E before \in {<<>>, <<CppOp>>} :
       tracing = [fn |-> fn, num_inputs |-> n, outputs |-> outputs,
                  before |-> before, graph |-> before, status |-> NONE,
                  value_trace |-> <<>>]
  /\ graph = <<>>
  /\ run = <<>>
  /\ creations = <<>>
  /\ vblock = <<>>
  /\ IdleMore
  /\ cv = <<>>
  /\ engine = <<>>
  /\ kern = <<>>
  /\ IdleGuard
  /\ IdleInterp

\* the function is applied while the trace is recorded
TracedApply ==
  /\ tracing.status = NONE
  /\ LET r == tracedApply(tracing.fn, tracing.num_inputs, tracing.outputs,
                          tracing.graph)
     IN tracing' = [tracing EXCEPT !.status = r.status, !.graph = r.graph,
                                   !.value_trace = r.value_trace]
  /\ UNCHANGED <<cv, engine, kern, graph, run, creations, vblock, moreVars, guardVars, interpVars>>

NextTrace == TracedApply

SpecTrace == InitTrace /\ [][NextTrace]_vars

Traced == tracing.status # NONE
TraceNode == tracing.graph[Len(tracing.graph)]
OneNodeAppended ==
  /\ Len(tracing.graph) = Len(tracing.before) + 1
  /\ SubSeq(tracing.graph, 1, Len(tracing.before)) = tracing.before
  /\ TraceNode.op = "CppOp"
MustSave ==
  /\ ~tracing.fn.passes_state_transparently
  /\ ~tracing.fn.in_eval_subgraph
  /\ ~tracing.fn.has_saved_variables

\* C30 as stated: a function that is not traceable is registered as one trace
\* node with one input per apply input and one output per apply output, a
\* value trace set for every defined output; a traceable function adds no
\* node; without saved variables, outside an eval subgraph and not passing
\* state transparently, tracedApply fails.
C30_Original ==
  Traced =>
    IF tracing.fn.is_traceable
    THEN tracing.graph = tracing.before /\ tracing.status = OK
    ELSE /\ OneNodeAppended
         /\ Len(TraceNode.inputs) = tracing.num_inputs
         /\ Len(TraceNode.outputs) = Len(tracing.outputs)
         /\ \A o \in 1..Len(tracing.outputs) :
              tracing.outputs[o] => tracing.value_trace[o] = TraceNode.outputs[o]
         /\ MustSave => tracing.status = ERR_SAVED_VARIABLES

\* C30: a function that is not traceable is registered as one trace node
\* appended to the graph.  The node's first inputs are the value traces of
\* the apply inputs, in order, and an Eval that does not pass state
\* transparently adds its forward context as one more input.  Its first
\* outputs are one select per apply output, in order, whose value trace is set
\* exactly for the defined outputs, and a function that does not pass state
\* transparently and has a backward Eval (it is outside an eval subgraph, or is
\* an Eval) adds a context handle as one more output.  A traceable function is
\* applied directly and adds no node.  tracedApply fails, after the node was
\* appended, exactly when the function does not pass state transparently, is
\* outside an eval subgraph and provides no saved variables.
C30_TracedApply ==
  Traced =>
    IF tracing.fn.is_traceable
    THEN tracing.graph = tracing.before /\ tracing.status = OK
    ELSE LET fn == tracing.fn
             n  == tracing.num_inputs
             m  == Len(tracing.outputs)
             more_in  == ~fn.passes_state_transparently /\ fn.is_eval
             more_out == /\ ~fn.passes_state_transparently
                         /\ ~MustSave
                         /\ (~fn.in_eval_subgraph \/ fn.is_eval)
         IN /\ OneNodeAppended
            /\ Len(TraceNode.inputs) = n + (IF more_in THEN 1 ELSE 0)
            /\ \A i \in 1..n : TraceNode.inputs[i] = TraceOfInput(i)
            /\ more_in => TraceNode.inputs[n + 1] = ForwardCtx
            /\ Len(TraceNode.outputs) = m + (IF more_out THEN 1 ELSE 0)
            /\ \A o \in 1..m :
                 /\ TraceNode.outputs[o] = Select(o)
                 /\ tracing.value_trace[o] =
                      (IF tracing.outputs[o] THEN Select(o) ELSE NoTrace)
            /\ more_out => TraceNode.outputs[m + 1] = CtxSelect
            /\ (tracing.status = ERR_SAVED_VARIABLES) = MustSave
            /\ tracing.status \in {OK, ERR_SAVED_VARIABLES}

\* a function with saved variables, outside an eval subgraph: two inputs, an
\* undefined output among two, and the context handle as a third output
C30_Witness ==
  /\ Traced
  /\ ~tracing.fn.is_traceable
  /\ ~tracing.fn.passes_state_transparently
  /\ ~tracing.fn.is_eval
  /\ ~tracing.fn.in_eval_subgraph
  /\ tracing.fn.has_saved_variables
  /\ tracing.num_inputs = 2
  /\ tracing.outputs = <<TRUE, FALSE>>
  /\ tracing.before # <<>>
  /\ Len(TraceNode.outputs) = 3
  /\ tracing.status = OK

----------------------------------------------------------------------------
(* SpecChecks: one apply of a convolution node on arguments of any shape,  *)
(* with the checks at its head                                             *)

ERR_SHAPE_DIMS     == "Expected k-dimensional input for k-dimensional weight"
ERR_SHAPE_GROUPS   == "expected weight to be at least groups at dimension 0"
ERR_SHAPE_CHANNELS == "expected input to have channels"
ERR_SHAPE_BIAS     == "expected bias to be 1-dimensional with elements"

\* a Variable with the shape of its data: ndimension() and the first sizes
Shaped(rg, ndimension, sizes) ==
  [defined |-> TRUE, requires_grad |-> rg, ndimension |-> ndimension,
   sizes |-> sizes]
Unshaped ==
  [defined |-> FALSE, requires_grad |-> FALSE, ndimension |-> 0, sizes |-> <<>>]

\* tensor.size(d)
size(tensor, d) == tensor.sizes[d + 1]

\* a shape check that takes the weight's input channels for all the groups'
check_input_shape_forward_ungrouped(input, weight, bias, groups, transposed) ==
  IF weight.ndimension # input.ndimension THEN ERR_SHAPE_DIMS
  ELSE IF size(weight, 0) < groups THEN ERR_SHAPE_GROUPS
  ELSE IF size(input, 1) # (IF transposed THEN size(weight, 0)
                            ELSE size(weight, 1))
  THEN ERR_SHAPE_CHANNELS
  ELSE IF bias.defined /\ (bias.ndimension # 1 \/ size(bias, 0) #
            (IF transposed THEN size(weight, 1) ELSE size(weight, 0)))
  THEN ERR_SHAPE_BIAS
  ELSE OK

\* check_input_shape_forward(input, weight, bias, groups, transposed): OK, or
\* the message it throws
check_input_shape_forward(input, weight, bias, groups, transposed) ==
  IF weight.ndimension # input.ndimension THEN ERR_SHAPE_DIMS
  ELSE IF size(weight, 0) < groups THEN ERR_SHAPE_GROUPS
  ELSE IF ~transposed
  THEN IF size(input, 1) # size(weight, 1) * groups THEN ERR_SHAPE_CHANNELS
       ELSE IF bias.defined /\ (bias.ndimension # 1
                                  \/ size(bias, 0) # size(weight, 0))
       THEN ERR_SHAPE_BIAS
       ELSE OK
  ELSE IF size(input, 1) # size(weight, 0) THEN ERR_SHAPE_CHANNELS
       ELSE IF bias.defined /\ (bias.ndimension # 1
                                  \/ size(bias, 0) # size(weight, 1) * groups)
       THEN ERR_SHAPE_BIAS
       ELSE OK

\* what an apply did: the guards it unpacked, the kernels it called, the
\* outputs it returned, which of them are defined when the function tells,
\* and the functions it constructed
NoResult ==
  [status |-> NONE, unpacked |-> <<>>, kernels |-> <<>>, outputs |-> <<>>,
   defined |-> <<>>, built |-> <<>>]
Failed(msg) == [NoResult EXCEPT !.status = msg]

\* a ConvForward::apply that looks at the padding only after the shapes
ConvForward_call_shapes_first(params, inputs) ==
  IF check_input_variables(inputs, 3, 2)
  THEN Failed(ERR_EXPECTED_VARIABLE)
  ELSE LET shape == check_input_shape_forward(inputs[1], inputs[2], inputs[3],
                                              params.groups, params.transposed)
       IN IF shape # OK THEN Failed(shape)
          ELSE IF is_padding_neg(params) THEN Failed(ERR_NEG_PADDING)
          ELSE IF is_output_padding_neg(params)
          THEN Failed(ERR_NEG_OUTPUT_PADDING)
          ELSE [NoResult EXCEPT !.status = OK,
                                !.kernels = <<"convolution">>,
                                !.outputs = <<"output">>]

\* ConvForward::apply(inputs) on arguments with shapes: the checks, the
\* kernel of the backend, and wrap_outputs with the ConvBackward node
ConvForward_call(params, inputs) ==
  IF check_input_variables(inputs, 3, 2)
  THEN Failed(ERR_EXPECTED_VARIABLE)
  ELSE IF is_padding_neg(params) THEN Failed(ERR_NEG_PADDING)
  ELSE IF is_output_padding_neg(params) THEN Failed(ERR_NEG_OUTPUT_PADDING)
  ELSE LET shape == check_input_shape_forward(inputs[1], inputs[2], inputs[3],
                                              params.groups, params.transposed)
       IN IF shape # OK THEN Failed(shape)
          ELSE [NoResult EXCEPT
                  !.status = OK,
                  !.kernels = <<"convolution">>,
                  !.outputs = <<"output">>,
                  !.defined = <<TRUE>>,
                  !.built = IF is_executable(inputs)
                            THEN <<"ConvBackward">> ELSE <<>>]

\* ConvBackward::apply(grad_outputs) on a node, as a call record
ConvBackward_call(node, grad_outputs, vcs, alive) ==
  LET r == ConvBackward_apply(node, grad_outputs, vcs, alive)
  IN IF r.status # OK
     THEN [Failed(r.status) EXCEPT !.unpacked = r.done]
     ELSE [NoResult EXCEPT
             !.status = OK,
             !.unpacked = r.done,
             !.kernels = <<"convolution backward">>,
             !.outputs = <<"grad_input", "grad_weight", "grad_bias">>,
             !.built = IF r.grad_fn.exists
                       THEN <<"ConvBackwardBackward">> ELSE <<>>]

\* apply_fn<ConvForward>(params)(...) on each group's part, joined by Cat;
\* on a CUDA tensor the second argument is made contiguous first
ConvPerGroup(groups, cuda) ==
  LET one == (IF cuda THEN <<"Contiguous">> ELSE <<>>) \o <<"ConvForward">>
  IN IF groups = 1 THEN one
     ELSE Flatten([g \in 1..groups |-> <<"Narrow", "Narrow">> \o one])
            \o <<"Cat">>

\* the functions applied for ggO = conv(w, ggI) + conv(ggW, i) + ggb
ggO_calls(ggI, ggW, ggb, cuda) ==
  LET contiguous == IF cuda THEN <<"Contiguous">> ELSE <<>>
      first  == IF ggI.defined THEN contiguous \o <<"ConvForward">> ELSE <<>>
      second == IF ggW.defined
                THEN contiguous \o <<"ConvForward">>
                       \o (IF first # <<>> THEN <<"Add">> ELSE <<>>)
                ELSE <<>>
      third  == IF ggb.defined
                THEN <<"Contiguous", "View", "Expand">>
                       \o (IF first \o second # <<>> THEN <<"Add">> ELSE <<>>)
                ELSE <<>>
  IN first \o second \o third

\* the functions applied for gW = conv(ggI, gO); wide holds the dimensions
\* in which the result is larger than the weight
gW_calls(ggI, groups, cuda, wide) ==
  IF ggI.defined
  THEN <<"Transpose", "Transpose">> \o ConvPerGroup(groups, cuda)
         \o <<"Transpose">> \o [d \in 1..Cardinality(wide) |-> "Narrow"]
  ELSE <<>>

\* a gI computed from gO alone
gI_calls_always(ggW, groups, cuda) ==
  <<"Transpose", "Transpose">> \o ConvPerGroup(groups, cuda) \o <<"Transpose">>

\* the functions applied for gI = convT(gO, ggW)
gI_calls(ggW, groups, cuda) ==
  IF ggW.defined
  THEN <<"Transpose", "Transpose">> \o ConvPerGroup(groups, cuda)
         \o <<"Transpose">>
  ELSE <<>>

\* ConvBackwardBackward::apply(grad_grad_inputs) on a node, as a call
\* record: a result is defined exactly when a function was applied for it
ConvBackwardBackward_call(node, grad_grad_inputs, cuda, wide, vcs, alive) ==
  LET r == ConvBackwardBackward_apply(node, grad_grad_inputs, vcs, alive)
  IN IF r.status # OK
     THEN [Failed(r.status) EXCEPT !.unpacked = r.done]
     ELSE LET ggI == grad_grad_inputs[1]
              ggW == grad_grad_inputs[2]
              ggb == grad_grad_inputs[3]
              ggO == ggO_calls(ggI, ggW, ggb, cuda)
              gW  == gW_calls(ggI, node.params.groups, cuda, wide)
              gI  == gI_calls(ggW, node.params.groups, cuda)
          IN [NoResult EXCEPT
                !.status = OK,
                !.unpacked = r.done,
                !.outputs = <<"ggO", "gI", "gW">>,
                !.defined = <<ggO # <<>>, gI # <<>>, gW # <<>>>>,
                !.built = ggO \o gW \o gI]

ChannelChoices == {1, 2, 4}
DimChoices     == {3, 4}

\* padding and output_padding of every sign, with groups and transposed
CallParams ==
  {[padding |-> p.padding, output_padding |-> p.output_padding,
    transposed |-> p.transposed, groups |-> g]
     : p \in ParamChoices, g \in 1..MaxGroups}

\* the arguments of a forward call: an input, a weight, an optional bias
ShapedInputs ==
  {Shaped(FALSE, k, <<1, c>>) : k \in DimChoices, c \in {2, 4}}
ShapedWeights ==
  {Shaped(rg, k, <<c0, c1>>)
     : rg \in BOOLEAN, k \in DimChoices, c0 \in ChannelChoices, c1 \in {1, 2}}
ShapedBiases ==
  {Unshaped, Shaped(TRUE, 1, <<2>>), Shaped(TRUE, 1, <<4>>),
   Shaped(TRUE, 2, <<2, 1>>)}

ForwardInputs ==
  {<<i, w, b>> : i \in ShapedInputs, w \in ShapedWeights, b \in ShapedBiases}
  \cup {<<i, Unshaped, Unshaped>> : i \in ShapedInputs}
  \cup {<<i, w>> : i \in ShapedInputs,
                   w \in {Shaped(TRUE, 4, <<2, 2>>), Shaped(TRUE, 4, <<4, 1>>)}}

ZeroVersions == [c \in ConvCounters |-> 0]

\* a ConvBackward node constructed on its own, with any parameters, and
\* possibly released by an earlier pass
BackwardNodes ==
  {IF released THEN [releaseVariables(n, CBGuards) EXCEPT !.released = TRUE] ELSE n
     : released \in BOOLEAN,
       n \in {ConvBackwardCtor(p, LeafVariable("input", FALSE, "input", NoAcc),
                LeafVariable("weight", TRUE, "weight", "weight"),
                b, ZeroVersions)
                : p \in CallParams, b \in BiasChoices}}

\* a ConvBackwardBackward node as ConvBackward::apply constructs it, after
\* its own padding checks, and possibly released by an earlier pass
DoubleBackwardNodes ==
  {IF released THEN [releaseVariables(n, CBBGuards) EXCEPT !.released = TRUE] ELSE n
     : released \in BOOLEAN,
       n \in {ConvBackwardBackwardCtor(p,
                LeafVariable("input", FALSE, "input", NoAcc),
                LeafVariable("weight", TRUE, "weight", "weight"),
                UndefinedVariable,
                LeafVariable("grad_output", TRUE, "grad_output", "grad_output"),
                ZeroVersions)
                : p \in {q \in CallParams : ~is_padding_neg(q)
                                              /\ ~is_output_padding_neg(q)}}}

GradGradInputs ==
  {<<ggI, ggW, ggb>> : ggI \in GradGradChoices, ggW \in GradGradChoices,
                       ggb \in GradGradChoices}
  \cup {<<ggI, ggW>> : ggI \in GradGradChoices, ggW \in GradGradChoices}

GradOutputs == {<<g>> : g \in GradChoices} \cup {<<UndefinedVariable>>, <<>>}

InitChecks ==
  /\ \/ \E p \in CallParams : \E inputs \in ForwardInputs :
          invoke = [fn |-> "ConvForward", params |-> p, inputs |-> inputs,
                    node |-> NullNode, result |-> NoResult]
     \/ \E n \in BackwardNodes : \E grads \in GradOutputs :
          invoke = [fn |-> "ConvBackward", params |-> n.params,
                    inputs |-> grads, node |-> n, result |-> NoResult]
     \/ \E n \in DoubleBackwardNodes : \E ggs \in GradGradInputs :
        \E cuda \in BOOLEAN : \E wide \in SUBSET Dims :
          invoke = [fn |-> "ConvBackwardBackward", params |-> n.params,
                    inputs |-> ggs, node |-> n, cuda |-> cuda, wide |-> wide,
                    result |-> NoResult]
  /\ tlock = <<>>
  /\ copy = <<>>
  /\ graph = <<>>
  /\ run = <<>>
  /\ creations = <<>>
  /\ tracing = <<>>
  /\ vblock = <<>>
  /\ cv = <<>>
  /\ engine = <<>>
  /\ kern = <<>>
  /\ IdleGuard
  /\ IdleInterp

notChecks == <<tlock, copy, graph, run, creations, tracing, vblock, cv, engine, kern, guardVars, interpVars>>

\* ConvForward(params).apply(inputs)
ForwardCall ==
  /\ invoke.fn = "ConvForward"
  /\ invoke.result.status = NONE
  /\ invoke' = [invoke EXCEPT
                  !.result = ConvForward_call(invoke.params, invoke.inputs)]
  /\ UNCHANGED notChecks

\* node.apply(grad_outputs) on a ConvBackward node
BackwardCall ==
  /\ invoke.fn = "ConvBackward"
  /\ invoke.result.status = NONE
  /\ invoke' = [invoke EXCEPT
                  !.result = ConvBackward_call(invoke.node, invoke.inputs,
                                               ZeroVersions, ConvCounters)]
  /\ UNCHANGED notChecks

\* node.apply(grad_grad_inputs) on a ConvBackwardBackward node
DoubleBackwardCall ==
  /\ invoke.fn = "ConvBackwardBackward"
  /\ invoke.result.status = NONE
  /\ invoke' = [invoke EXCEPT
                  !.result = ConvBackwardBackward_call(invoke.node,
                               invoke.inputs, invoke.cuda, invoke.wide,
                               ZeroVersions, ConvCounters)]
  /\ UNCHANGED notChecks

NextChecks ==
  \/ ForwardCall
  \/ BackwardCall
  \/ DoubleBackwardCall

SpecChecks == InitChecks /\ [][NextChecks]_vars

Called(fn) == invoke.fn = fn /\ invoke.result.status # NONE
ArityFails ==
  CASE invoke.fn = "ConvForward" ->
         Len(invoke.inputs) # 3 \/ \E i \in 1..2 : ~invoke.inputs[i].defined
    [] invoke.fn = "ConvBackward" ->
         Len(invoke.inputs) # 1 \/ ~invoke.inputs[1].defined
    [] OTHER -> Len(invoke.inputs) # 3
NegativePadding == \E d \in Dims : invoke.params.padding[d] < 0
NegativeOutputPadding == \E d \in Dims : invoke.params.output_padding[d] < 0
NothingDone ==
  /\ invoke.result.unpacked = <<>>
  /\ invoke.result.kernels = <<>>
  /\ invoke.result.outputs = <<>>
  /\ invoke.result.built = <<>>

\* C31: a ConvForward::apply or ConvBackward::apply whose arguments pass the
\* arity check fails with the negative-padding message when an entry of
\* padding is negative, and else with the negative-output_padding message when
\* an entry of output_padding is negative, whatever the shapes and the guards;
\* it then has unpacked no guard, called no kernel, returned no output and
\* constructed no node.  Neither message is raised in another case.
C31_NegativePadding ==
  (Called("ConvForward") \/ Called("ConvBackward")) =>
    LET status == invoke.result.status
    IN /\ (~ArityFails /\ NegativePadding) => status = ERR_NEG_PADDING
       /\ (~ArityFails /\ ~NegativePadding /\ NegativeOutputPadding)
            => status = ERR_NEG_OUTPUT_PADDING
       /\ status = ERR_NEG_PADDING => (~ArityFails /\ NegativePadding)
       /\ status = ERR_NEG_OUTPUT_PADDING
            => (~ArityFails /\ NegativeOutputPadding)
       /\ status \in {ERR_NEG_PADDING, ERR_NEG_OUTPUT_PADDING} => NothingDone
       /\ ArityFails => status = ERR_EXPECTED_VARIABLE

\* a released ConvBackward node with a negative entry of output_padding: the
\* padding message, not the backward-twice message, and no guard unpacked
C31_Witness ==
  /\ Called("ConvBackward")
  /\ invoke.node.guards["input_"].data = NoData
  /\ invoke.params.padding = [d \in Dims |-> 0]
  /\ invoke.params.output_padding[2] = -1
  /\ invoke.params.output_padding[1] = 0
  /\ invoke.result.status = ERR_NEG_OUTPUT_PADDING
  /\ NothingDone

ShapeErrors ==
  {ERR_SHAPE_DIMS, ERR_SHAPE_GROUPS, ERR_SHAPE_CHANNELS, ERR_SHAPE_BIAS}

\* the conditions of C32 on the arguments of the call
ShapeMismatch ==
  LET input  == invoke.inputs[1]
      weight == invoke.inputs[2]
      bias   == invoke.inputs[3]
      groups == invoke.params.groups
  IN \/ weight.ndimension # input.ndimension
     \/ size(weight, 0) < groups
     \/ ~invoke.params.transposed /\ size(input, 1) # size(weight, 1) * groups
     \/ invoke.params.transposed /\ size(input, 1) # size(weight, 0)
     \/ /\ bias.defined
        /\ \/ bias.ndimension # 1
           \/ size(bias, 0) # (IF invoke.params.transposed
                               THEN size(weight, 1) * groups
                               ELSE size(weight, 0))

C36_DoubleBackwardOutputs ==
  (Called("ConvBackwardBackward") /\ ~ArityFails) =>
    LET result == invoke.result
        ggI    == invoke.inputs[1].defined
        ggW    == invoke.inputs[2].defined
        ggb    == invoke.inputs[3].defined
    IN /\ invoke.params.transposed =>
            (result.status = ERR_TRANSPOSED_BACKWARD /\ NothingDone)
       /\ (~invoke.params.transposed /\ ~invoke.node.released) =>
            result.status = OK
       /\ result.status = OK =>
            /\ ~invoke.params.transposed
            /\ result.outputs = <<"ggO", "gI", "gW">>
            /\ result.defined = <<ggI \/ ggW \/ ggb, ggW, ggI>>
            /\ (~ggI /\ ~ggW /\ ~ggb) => result.built = <<>>

\* only the gradient of the weight's gradient arrives, on a grouped
\* convolution: ggO and gI are defined and gW is not
C36_Witness ==
  /\ Called("ConvBackwardBackward")
  /\ ~ArityFails
  /\ ~invoke.inputs[1].defined
  /\ invoke.inputs[2].defined
  /\ ~invoke.inputs[3].defined
  /\ invoke.params.groups = 2
  /\ invoke.result.status = OK
  /\ invoke.result.defined = <<TRUE, TRUE, FALSE>>
  /\ invoke.result.unpacked = <<"grad_output_", "weight_", "input_", "input_">>

----------------------------------------------------------------------------
(* SpecLock: threads run Function::tracedApply on functions that are not   *)
(* traceable; an apply may itself run a traced function                    *)

MaxDepth == 2   \* traced applies nested in one another on one thread

NoHolder == <<0, 0>>

\* the steps of tracedApply, in program order
NextStep(step) ==
  CASE step = "lock"    -> "insert"
    [] step = "insert"  -> "unlock"
    [] step = "unlock"  -> "apply"
    [] step = "apply"   -> "relock"
    [] step = "relock"  -> "outputs"
    [] step = "outputs" -> "return"

\* the changes a step makes to the trace graph
WritesOf(step) ==
  CASE step = "insert"  -> {"createCppOp", "addInput", "appendNode"}
    [] step = "outputs" -> {"addOutput", "setValueTrace"}
    [] OTHER            -> {}

\* a tracedApply that keeps the lock while apply runs
state_lock_kept(step, frame, holder) ==
  CASE step \in {"lock", "relock"} -> frame
    [] step = "return"             -> NoHolder
    [] OTHER                       -> holder

\* the owner of the tracing state's mutex after a step of a call: lock() and
\* state_lock.lock() take it, state_lock.unlock() and the end of the scope of
\* state_lock give it up
state_lock(step, frame, holder) ==
  CASE step \in {"lock", "relock"}   -> frame
    [] step \in {"unlock", "return"} -> NoHolder
    [] OTHER                         -> holder

\* the call a thread is in: its innermost tracedApply
Top(t) == <<t, Len(tlock.stack[t])>>
StepAt(frame) == tlock.stack[frame[1]][frame[2]]

InitLock ==
  /\ tlock = [stack  |-> [t \in Threads |-> <<>>],
              holder |-> NoHolder,
              writes |-> {}]
  /\ invoke = <<>>
  /\ copy = <<>>
  /\ graph = <<>>
  /\ run = <<>>
  /\ creations = <<>>
  /\ tracing = <<>>
  /\ vblock = <<>>
  /\ cv = <<>>
  /\ engine = <<>>
  /\ kern = <<>>
  /\ IdleGuard
  /\ IdleInterp

notLock == <<invoke, copy, graph, run, creations, tracing, vblock, cv, engine, kern, guardVars, interpVars>>

\* thread t calls tracedApply: from outside, or from inside the apply that a
\* tracedApply of its own is running
Enter(t) ==
  /\ Len(tlock.stack[t]) < MaxDepth
  /\ tlock.stack[t] # <<>> => StepAt(Top(t)) = "apply"
  /\ tlock' = [tlock EXCEPT !.stack[t] = Append(@, "lock")]
  /\ UNCHANGED notLock

\* state->lock() and state_lock.lock(): the thread waits for the mutex
Acquire(t) ==
  /\ tlock.stack[t] # <<>>
  /\ StepAt(Top(t)) \in {"lock", "relock"}
  /\ tlock.holder = NoHolder
  /\ tlock' = [tlock EXCEPT
                 !.holder = state_lock(StepAt(Top(t)), Top(t), tlock.holder),
                 !.stack[t][Len(tlock.stack[t])] = NextStep(@)]
  /\ UNCHANGED notLock

\* the CppOp is created, given its inputs and appended; after apply, the
\* outputs are added and their value traces set
Mutate(t) ==
  /\ tlock.stack[t] # <<>>
  /\ StepAt(Top(t)) \in {"insert", "outputs"}
  /\ tlock' = [tlock EXCEPT
                 !.writes = @ \cup {[what |-> w,
                                     locked |-> tlock.holder = Top(t)]
                                      : w \in WritesOf(StepAt(Top(t)))},
                 !.stack[t][Len(tlock.stack[t])] = NextStep(@)]
  /\ UNCHANGED notLock

\* state_lock.unlock(), just before apply(inputs)
Unlock(t) ==
  /\ tlock.stack[t] # <<>>
  /\ StepAt(Top(t)) = "unlock"
  /\ tlock' = [tlock EXCEPT
                 !.holder = state_lock("unlock", Top(t), tlock.holder),
                 !.stack[t][Len(tlock.stack[t])] = NextStep(@)]
  /\ UNCHANGED notLock

\* apply(inputs) returns
ApplyReturns(t) ==
  /\ tlock.stack[t] # <<>>
  /\ StepAt(Top(t)) = "apply"
  /\ tlock' = [tlock EXCEPT !.stack[t][Len(tlock.stack[t])] = NextStep(@)]
  /\ UNCHANGED notLock

\* tracedApply returns and state_lock goes out of scope
Leave(t) ==
  /\ tlock.stack[t] # <<>>
  /\ StepAt(Top(t)) = "return"
  /\ tlock' = [tlock EXCEPT
                 !.holder = state_lock("return", Top(t), tlock.holder),
                 !.stack[t] = SubSeq(@, 1, Len(@) - 1)]
  /\ UNCHANGED notLock

NextLock ==
  \/ \E t \in Threads : Enter(t)
  \/ \E t \in Threads : Acquire(t)
  \/ \E t \in Threads : Mutate(t)
  \/ \E t \in Threads : Unlock(t)
  \/ \E t \in Threads : ApplyReturns(t)
  \/ \E t \in Threads : Leave(t)

SpecLock == InitLock /\ [][NextLock]_vars

Frames == {<<t, d>> : t \in Threads, d \in 1..MaxDepth}
Live37(frame) == frame[2] <= Len(tlock.stack[frame[1]])

\* C37: a tracedApply holds the lock of the tracing state at each change it
\* makes to the trace graph (the node created, given inputs and appended; the
\* outputs added and their value traces set) and does not hold it from the
\* unlock before apply to the lock after it; so a call that waits for the
\* lock, nested in the apply or on another thread, never waits for a call
\* that is running its apply, its own caller included.
C37_LockAroundApply ==
  /\ \A w \in tlock.writes : w.locked
  /\ \A f \in Frames : Live37(f) =>
       /\ StepAt(f) \in {"insert", "unlock", "outputs", "return"}
            <=> tlock.holder = f
       /\ StepAt(f) \in {"lock", "relock"} =>
            /\ tlock.holder # NoHolder => StepAt(tlock.holder) # "apply"
            /\ \A d \in 1..(f[2] - 1) : tlock.holder # <<f[1], d>>

\* a nested call holds the lock and has appended its node while its caller
\* is inside apply, and another thread waits
C37_Witness ==
  /\ \E t \in Threads :
       /\ Len(tlock.stack[t]) = 2
       /\ tlock.stack[t] = <<"apply", "unlock">>
       /\ tlock.holder = <<t, 2>>
       /\ \E u \in Threads \ {t} : tlock.stack[u] = <<"relock">>
  /\ \E w \in tlock.writes : w.what = "setValueTrace" /\ w.locked

----------------------------------------------------------------------------
(* SpecCopy: THPCopy over a list of registered copy functions *)

MaxCopyFunctions == 3   \* entries of a THPCopyList

ERR_COPY == "copy from src to dst isn't implemented"

PyTypes == {"object", "FloatTensor", "FloatStorage"}

\* PyType_IsSubtype(a, b)
PyType_IsSubtype(a, b) == a = b \/ b = "object"

\* a search that takes an entry of either kind
tryTHPCopy_any(v, src, async, i) ==
  LET fits == {k \in i..Len(v) : PyType_IsSubtype(src, v[k].srcType)}
  IN IF fits = {} THEN 0 ELSE CHOOSE k \in fits : \A j \in fits : k <= j

\* tryTHPCopy(v, dst, src, async, broadcast), from entry i on: the entry whose
\* copy function it invokes, 0 when it invokes none and returns false
RECURSIVE tryTHPCopy(_, _, _, _)
tryTHPCopy(v, src, async, i) ==
  IF i > Len(v) THEN 0
  ELSE IF v[i].async = async /\ PyType_IsSubtype(src, v[i].srcType) THEN i
  ELSE tryTHPCopy(v, src, async, i + 1)

\* THPCopy(v, dst, src, async, broadcast)
THPCopy(v, src, async) ==
  LET first  == tryTHPCopy(v, src, async, 1)
      second == IF first = 0 /\ async THEN tryTHPCopy(v, src, FALSE, 1) ELSE 0
  IN IF first # 0
     THEN [returned |-> TRUE, invoked |-> <<first>>, error |-> NONE]
     ELSE IF second # 0
     THEN [returned |-> TRUE, invoked |-> <<second>>, error |-> NONE]
     ELSE [returned |-> FALSE, invoked |-> <<>>, error |-> ERR_COPY]

CopyInfos == [srcType : PyTypes, async : BOOLEAN]
CopyLists == UNION {[1..n -> CopyInfos] : n \in 0..MaxCopyFunctions}

NoCopy == [returned |-> FALSE, invoked |-> <<>>, error |-> NONE]

InitCopy ==
  /\ \E v \in CopyLists : \E src \in PyTypes \ {"object"} : \E async \in BOOLEAN :
       copy = [v |-> v, src |-> src, async |-> async, called |-> FALSE,
               result |-> NoCopy]
  /\ invoke = <<>>
  /\ tlock = <<>>
  /\ graph = <<>>
  /\ run = <<>>
  /\ creations = <<>>
  /\ tracing = <<>>
  /\ vblock = <<>>
  /\ cv = <<>>
  /\ engine = <<>>
  /\ kern = <<>>
  /\ IdleGuard
  /\ IdleInterp

\* dst.copy_(src, async)
Copy ==
  /\ ~copy.called
  /\ copy' = [copy EXCEPT !.called = TRUE,
                          !.result = THPCopy(copy.v, copy.src, copy.async)]
  /\ UNCHANGED <<invoke, tlock, graph, run, creations, tracing, vblock, cv, engine, kern, guardVars, interpVars>>

NextCopy == Copy

SpecCopy == InitCopy /\ [][NextCopy]_vars

\* the entries with the given flag whose type the source object has
Matching(async) ==
  {k \in 1..Len(copy.v) :
     copy.v[k].async = async /\ PyType_IsSubtype(copy.src, copy.v[k].srcType)}
Least(S) == CHOOSE k \in S : \A j \in S : k <= j

\* C38: THPCopy invokes exactly one copy function, the first in list order
\* whose async flag is the requested one and whose type the source has; when
\* there is none and async was requested, the first synchronous entry whose
\* type the source has; when there is none either, it invokes no function,
\* sets the not-implemented error and returns false.  A synchronous request
\* never invokes an async entry.
C38_CopyDispatch ==
  copy.called =>
    LET result == copy.result
    IN /\ IF Matching(copy.async) # {}
          THEN result = [returned |-> TRUE, error |-> NONE,
                         invoked |-> <<Least(Matching(copy.async))>>]
          ELSE IF copy.async /\ Matching(FALSE) # {}
          THEN result = [returned |-> TRUE, error |-> NONE,
                         invoked |-> <<Least(Matching(FALSE))>>]
          ELSE result = [returned |-> FALSE, error |-> ERR_COPY,
                         invoked |-> <<>>]
       /\ ~copy.async => \A k \in 1..Len(result.invoked) :
                           ~copy.v[result.invoked[k]].async

\* an async request that finds no async entry of the source's type falls
\* back to the second of two synchronous entries, past one of another type
C38_Witness ==
  /\ copy.called
  /\ copy.async
  /\ Len(copy.v) = 3
  /\ copy.v[1].async /\ ~PyType_IsSubtype(copy.src, copy.v[1].srcType)
  /\ ~copy.v[2].async /\ ~PyType_IsSubtype(copy.src, copy.v[2].srcType)
  /\ ~copy.v[3].async /\ copy.v[3].srcType = "object"
  /\ copy.result.invoked = <<3>>
  /\ copy.result.returned

====
